---- MODULE Spec2Model ----
(***************************************************************************)
(* The agent control loop of browser-agent (src/src/controller.py):        *)
(* AgentController.process_task, _execute_tool_call, _run_tool and reset,  *)
(* together with the part of json.loads / json.dumps the loop relies on.   *)
(*                                                                         *)
(* Text is a sequence of one-character strings, so that splitting an       *)
(* argument text into stream fragments, concatenating the fragments and    *)
(* decoding the result are all computed and none of them is assumed.       *)
(***************************************************************************)
EXTENDS Integers, Sequences, FiniteSets, TLC

\* ------------------------------------------------------------------ JSON

\* The characters of the argument texts.
Quote == "\""
DigitChars == <<"0", "1", "2", "3", "4", "5", "6", "7", "8", "9">>
IsDigit(c) == \E d \in 1..10 : DigitChars[d] = c
DigitVal(c) == (CHOOSE d \in 1..10 : DigitChars[d] = c) - 1

\* A decoded JSON value: an object (a set of <<key, value>> pairs with
\* distinct keys), a number, a string, or the failure of the decode.
JObj(m) == [t |-> "obj", n |-> 0, s |-> <<>>, m |-> m]
JNum(n) == [t |-> "num", n |-> n, s |-> <<>>, m |-> {}]
JStr(s) == [t |-> "str", n |-> 0, s |-> s, m |-> {}]
JFail == [t |-> "fail", n |-> 0, s |-> <<>>, m |-> {}]
\* True and False, where a value of any type may stand.
JBool(b) == [t |-> "bool", n |-> IF b THEN 1 ELSE 0, s |-> <<>>, m |-> {}]

\* A parse result: the value and the position after it; ok = FALSE on error.
POk(v, next) == [ok |-> TRUE, v |-> v, next |-> next]
PErr == [ok |-> FALSE, v |-> JFail, next |-> 0]

\* dict[key] = value: a later member with the same key replaces the earlier.
DictPut(m, k, v) == {p \in m : p[1] # k} \cup {<<k, v>>}

RECURSIVE ScanString(_, _)
\* The position of the closing quote of a string whose body starts at i,
\* or 0 when the text ends before it.
ScanString(s, i) ==
  IF i > Len(s) THEN 0
  ELSE IF s[i] = Quote THEN i
  ELSE ScanString(s, i + 1)

\* string := '"' (any character but '"')* '"'
ParseString(s, i) ==
  IF i > Len(s) \/ s[i] # Quote THEN PErr
  ELSE LET e == ScanString(s, i + 1)
       IN IF e = 0 THEN PErr ELSE POk(JStr(SubSeq(s, i + 1, e - 1)), e + 1)

RECURSIVE ScanDigits(_, _, _)
\* The digits from position i on: the number read so far and the position
\* after the last digit.
ScanDigits(s, i, acc) ==
  IF i <= Len(s) /\ IsDigit(s[i])
  THEN ScanDigits(s, i + 1, acc * 10 + DigitVal(s[i]))
  ELSE POk(JNum(acc), i)

\* number := '0' | [1-9] digit*   (a leading zero ends the number)
ParseNumber(s, i) ==
  IF i > Len(s) \/ ~IsDigit(s[i]) THEN PErr
  ELSE IF s[i] = "0" THEN POk(JNum(0), i + 1)
  ELSE ScanDigits(s, i, 0)

RECURSIVE ParseValue(_, _), ParseMembers(_, _, _)
\* value := object | string | number
ParseValue(s, i) ==
  IF i > Len(s) THEN PErr
  ELSE IF s[i] = "{" THEN
         IF i + 1 <= Len(s) /\ s[i + 1] = "}" THEN POk(JObj({}), i + 2)
         ELSE ParseMembers(s, i + 1, {})
  ELSE IF s[i] = Quote THEN ParseString(s, i)
  ELSE ParseNumber(s, i)

\* members := string ':' value ( ',' members | '}' ), the object so far in m
ParseMembers(s, i, m) ==
  LET k == ParseString(s, i)
  IN IF ~k.ok THEN PErr
     ELSE IF k.next > Len(s) \/ s[k.next] # ":" THEN PErr
     ELSE LET v == ParseValue(s, k.next + 1)
          IN IF ~v.ok THEN PErr
             ELSE IF v.next > Len(s) THEN PErr
             ELSE IF s[v.next] = "}" THEN POk(JObj(DictPut(m, k.v.s, v.v)), v.next + 1)
             ELSE IF s[v.next] = "," THEN ParseMembers(s, v.next + 1, DictPut(m, k.v.s, v.v))
             ELSE PErr

\* json.loads(s): the value of the whole text; JFail for JSONDecodeError
\* (also when anything follows the value: "Extra data").
JsonLoads(s) ==
  LET r == ParseValue(s, 1)
  IN IF r.ok /\ r.next = Len(s) + 1 THEN r.v ELSE JFail

\* Python's truth value of a decoded value (`not tool_call.args`).
Truthy(v) ==
  CASE v.t = "obj" -> v.m # {}
    [] v.t = "num" -> v.n # 0
    [] v.t = "str" -> v.s # <<>>
    [] OTHER -> FALSE

\* The order of two characters (their code points), and of two keys
\* (lexicographic), as sorted() orders the keys of a dict.
CharRank(c) ==
  CASE c = "," -> 44 [] c = "0" -> 48 [] c = "1" -> 49 [] c = ":" -> 58
    [] c = "a" -> 97 [] c = "b" -> 98 [] c = "{" -> 123 [] c = "}" -> 125
    [] OTHER -> 0
RECURSIVE KeyLess(_, _)
KeyLess(x, y) ==
  IF y = <<>> THEN FALSE
  ELSE IF x = <<>> THEN TRUE
  ELSE IF CharRank(Head(x)) # CharRank(Head(y)) THEN CharRank(Head(x)) < CharRank(Head(y))
  ELSE KeyLess(Tail(x), Tail(y))

RECURSIVE NumToText(_)
\* str(n) for n >= 0
NumToText(n) ==
  IF n < 10 THEN <<DigitChars[n + 1]>>
  ELSE NumToText(n \div 10) \o <<DigitChars[(n % 10) + 1]>>

RECURSIVE JsonDumps(_), DumpMembers(_)
\* The members of an object, smallest key first, separated by ", ".
DumpMembers(m) ==
  IF m = {} THEN <<>>
  ELSE LET p == CHOOSE q \in m : \A r \in m : r = q \/ KeyLess(q[1], r[1])
           rest == m \ {p}
       IN <<Quote>> \o p[1] \o <<Quote, ":", " ">> \o JsonDumps(p[2])
          \o (IF rest = {} THEN <<>> ELSE <<",", " ">> \o DumpMembers(rest))

\* json.dumps(v, sort_keys=True), with the default separators ", " and ": ".
JsonDumps(v) ==
  CASE v.t = "obj" -> <<"{">> \o DumpMembers(v.m) \o <<"}">>
    [] v.t = "num" -> NumToText(v.n)
    [] v.t = "str" -> <<Quote>> \o v.s \o <<Quote>>
    [] OTHER -> <<>>


\* ----------------------------------------------------------------- state

VARIABLES
  pc,                            \* where process_task is suspended; "idle": no task in flight
  messages,                      \* self.messages, the conversation history
  api_messages,                  \* process_task's api_messages, the list sent to the model
  recent_actions,                \* self.recent_actions, the ring of action signatures
  total_prompt_tokens,           \* self.total_prompt_tokens
  total_completion_tokens,       \* self.total_completion_tokens
  query_prompt_tokens,           \* self.query_prompt_tokens
  query_completion_tokens,       \* self.query_completion_tokens
  cached_pricing,                \* self._cached_pricing of the controller
  client_cached_pricing,         \* self._cached_pricing of the OpenRouter client
  iteration,                     \* process_task's iteration
  accumulated_tool_calls,        \* the ToolCall objects of the current turn
  tool_call_args_buffers,        \* their argument buffers
  assistant_tool_calls,          \* the tool_calls of the assistant message being built
  assistant_accumulated_content, \* its text
  exec_i,                        \* the position of the `for tool_call in ...` loop
  response,                      \* the fragments the Gateway's response consists of
  chunks_seen,                   \* how many of them the stream has yielded
  gw_error,                      \* what ended the last model call of this task abnormally
  emitted,                       \* events process_task has yielded in this task, by type
  last_event,                    \* the type of the last event yielded
  turn_events,                   \* per tool call of the current turn: what was yielded for it
  usage_event,                   \* the last usage event yielded
  model_calls,                   \* stream_chat_completion invocations of this task
  received_usage,                \* the usage counters of the fragments the Gateway delivered
  browser,                       \* self.browser, and the commands it ran for this task
  gw,                            \* one call of OpenRouterClient.stream_chat_completion
  invoked                           \* one call of a function of the wrapper, the client or tools.py

vars == <<pc, messages, api_messages, recent_actions, total_prompt_tokens,
          total_completion_tokens, query_prompt_tokens, query_completion_tokens,
          cached_pricing, client_cached_pricing, iteration, accumulated_tool_calls,
          tool_call_args_buffers, assistant_tool_calls, assistant_accumulated_content,
          exec_i, response, chunks_seen, gw_error, emitted, last_event, turn_events,
          usage_event, model_calls, received_usage, browser, gw, invoked>>

\* The controller's fields, and the locals of process_task.
session == <<messages, recent_actions, total_prompt_tokens, total_completion_tokens,
             query_prompt_tokens, query_completion_tokens>>
pricing == <<cached_pricing, client_cached_pricing>>
turn == <<accumulated_tool_calls, tool_call_args_buffers, assistant_tool_calls,
          assistant_accumulated_content>>

\* ------------------------------------------------------- program constants

MAX_HISTORY_MESSAGES == 12
MAX_SUMMARIZED_HISTORY == 6
RING_SIZE == 10
LOOP_THRESHOLD == 5

\* ------------------------------------------------------------------ bounds

\* AgentController(max_iterations=...): 1000 by default, small here.
max_iterations == 2
\* The tokens one controller counts.
MaxTokens == 2
\* A new task is submitted only while the history is at most this long.
MaxStartHistory == 2
\* A task of the fragment and loop-detection runs starts on a history of at most
\* this length, and their tool-call arguments arrive in at most MaxFrags fragments;
\* a turn of the loop-detection runs has at most MaxLoopCalls tool calls, in
\* which the arguments change from one call to the next at most MaxSwitches times.
FreshHistory == 0
MaxFrags == 3
MaxLoopCalls == 11
MaxSwitches == 3
\* A turn of the tool-execution runs has at most MaxToolCalls tool calls.
MaxToolCalls == 2
\* The lines of one streamed response.
MaxLines == 3
\* The length of an output handed to truncate_output, and its max_size.
MaxOutput == 11
\* The models a catalog lists.
MaxModels == 2

\* --------------------------------------------------------------- messages

\* The content of a message: text for the system, user and assistant roles; for
\* a tool result the JSON object {"ok", "output"} ("tool" only once summarized).
TextContent(t) == [text |-> t, tool |-> "", ok |-> TRUE, output |-> ""]
ResultContent(tool, ok, output) == [text |-> <<>>, tool |-> tool, ok |-> ok, output |-> output]

\* format_message(role, content)
format_message(role, content) ==
  [role |-> role, content |-> content, tool_calls |-> <<>>, tool_call_id |-> ""]

\* format_tool_message(tool_call_id, content)
format_tool_message(tool_call_id, content) ==
  [role |-> "tool", content |-> content, tool_calls |-> <<>>, tool_call_id |-> tool_call_id]

\* An assistant message whose tool_calls stay as they were when the calls were
\* opened, with empty arguments.
AssistantMessage_ArgumentsAsOpened(content, tool_calls) ==
  [role |-> "assistant", content |-> [text |-> content, tool |-> "", ok |-> TRUE, output |-> ""],
   tool_calls |-> [k \in 1..Len(tool_calls) |-> [tool_calls[k] EXCEPT !.arguments = <<>>]],
   tool_call_id |-> ""]

\* The assistant message of a turn: "tool_calls" is set only when there are any.
AssistantMessage(content, tool_calls) ==
  [role |-> "assistant", content |-> TextContent(content), tool_calls |-> tool_calls,
   tool_call_id |-> ""]

SystemPrompt == <<"system">>
UserTask == <<"task">>

\* ----------------------------------------------------------------- events

EventTypes == {"message_start", "message_end", "content", "error", "warning", "usage",
               "loop_detected", "tool_call"}
NoEvents == [e \in EventTypes |-> 0]
Emit(em, e) == [em EXCEPT ![e] = @ + 1]
NoUsageEvent == [prompt_tokens |-> 0, completion_tokens |-> 0, query_prompt_tokens |-> 0,
                 query_completion_tokens |-> 0, cost_num |-> 0, query_cost_num |-> 0]


\* ----------------------------------------------------------- model gateway

\* One fragment of a stream (a decoded SSE chunk), as process_task reads it:
\* choices_empty: "choices" is present and is the empty list; content: the delta's
\* text; has_tool: the delta carries one tool-call delta with its index (-1: no
\* "index" key), id ("": none), function name ("": none) and argument text;
\* has_usage: the chunk carries usage counters.
Chunk(choices_empty, content, has_tool, index, id, name, arguments, has_usage, pt, ct) ==
  [choices_empty |-> choices_empty, content |-> content, has_tool |-> has_tool,
   index |-> index, id |-> id, name |-> name, arguments |-> arguments,
   has_usage |-> has_usage, prompt_tokens |-> pt, completion_tokens |-> ct]

\* What ends a model call abnormally: the three failures stream_chat_completion
\* raises as OpenRouterError, and an exception of the fragment handler itself.
GatewayFailures == {"status", "timeout", "http"}

\* ------------------------------------------------------ fragment handling

\* The decode attempted after an append: of the fragment alone (a handler that
\* forgot the buffer).
DecodeBuffer_FragmentOnly(bufs, ci, frag) == JsonLoads(frag)

\* json.loads(tool_call_args_buffers[call_index]) after the append of frag.
DecodeBuffer(bufs, ci, frag) == JsonLoads(bufs[ci + 1])

\* The body of `async for chunk in ...` for one chunk: the new totals, text and
\* tool-call lists, and whether the body raised (IndexError), in which case
\* what it had assigned before stays assigned.
HandleChunk(c) ==
  IF c.choices_empty
  THEN [raised |-> TRUE, tp |-> total_prompt_tokens, tc |-> total_completion_tokens,
        content |-> assistant_accumulated_content, said |-> FALSE,
        calls |-> accumulated_tool_calls, bufs |-> tool_call_args_buffers,
        atc |-> assistant_tool_calls]
  ELSE
    LET tp == total_prompt_tokens + (IF c.has_usage THEN c.prompt_tokens ELSE 0)
        tc == total_completion_tokens + (IF c.has_usage THEN c.completion_tokens ELSE 0)
        said == c.content # <<>>
        content == assistant_accumulated_content \o c.content
        opened == c.has_tool /\ c.name # ""
        calls1 == IF opened
                  THEN Append(accumulated_tool_calls,
                              [name |-> c.name, args |-> JObj({}), call_id |-> c.id])
                  ELSE accumulated_tool_calls
        bufs1 == IF opened THEN Append(tool_call_args_buffers, <<>>)
                 ELSE tool_call_args_buffers
        atc1 == IF opened
                THEN Append(assistant_tool_calls,
                            [id |-> c.id, name |-> c.name, arguments |-> <<>>])
                ELSE assistant_tool_calls
        has_args == c.has_tool /\ c.arguments # <<>> /\ Len(calls1) > 0
        ci == IF c.index = -1 THEN Len(calls1) - 1 ELSE c.index
        bufs2 == IF has_args /\ ci < Len(bufs1)
                 THEN [bufs1 EXCEPT ![ci + 1] = @ \o c.arguments] ELSE bufs1
        atc2 == IF has_args /\ ci < Len(atc1)
                THEN [atc1 EXCEPT ![ci + 1].arguments = bufs2[ci + 1]] ELSE atc1
        raised == has_args /\ ci >= Len(bufs2)
        v == IF has_args /\ ~raised THEN DecodeBuffer(bufs2, ci, c.arguments) ELSE JFail
        calls2 == IF v # JFail THEN [calls1 EXCEPT ![ci + 1].args = v] ELSE calls1
    IN [raised |-> raised, tp |-> tp, tc |-> tc, content |-> content, said |-> said,
        calls |-> calls2, bufs |-> bufs2, atc |-> atc2]


\* --------------------------------------------------------- loop detection

\* f"{tool_call.name}:{json.dumps(tool_call.args, sort_keys=True)}"
ActionSig(call) == <<call.name, ":">> \o JsonDumps(call.args)

\* The ring after a push that forgets to evict.
PushRing_NoEvict(ring, sig) == Append(ring, sig)

\* recent_actions.append(sig), then pop(0) past ten entries.
PushRing(ring, sig) ==
  LET r == Append(ring, sig) IN IF Len(r) > RING_SIZE THEN Tail(r) ELSE r

\* recent_actions.count(sig)
Count(ring, sig) == Cardinality({i \in DOMAIN ring : ring[i] = sig})

\* The test with the threshold off by one.
ExactLoop_OffByOne(ring, sig) == Count(ring, sig) >= LOOP_THRESHOLD - 1

\* exact_loop = self.recent_actions.count(action_sig) >= 5
ExactLoop(ring, sig) == Count(ring, sig) >= LOOP_THRESHOLD

\* ---------------------------------------------------------- tool execution

\* tool_call.name.replace("browser_", ""), for the tool names of the model.
MethodOf(name) ==
  CASE name = "browser_open" -> "open"
    [] name = "browser_get_title" -> "get_title"
    [] name = "browser_snapshot" -> "snapshot"
    [] name = "browser_screenshot" -> "screenshot"
    [] name = "browser_click" -> "click"
    [] name = "browser_cleanup" -> "cleanup"
    [] name = "browser_scroll_into_view" -> "scroll_into_view"
    [] OTHER -> "bogus"

\* The attributes getattr(self.browser, ...) finds, among those MethodOf yields.
BrowserMethods ==
  {"open", "get_title", "snapshot", "screenshot", "click", "cleanup", "scroll_into_view"}

\* The keyword parameters of a method: those it requires and those it accepts.
\* The keys of the model stand for a method's parameters: "a" for its first
\* (url, ref, interactive, path), "b" for its second (compact, full_page).
Required(method) ==
  IF method \in {"open", "click", "scroll_into_view"} THEN {<<"a">>} ELSE {}
Accepted(method) ==
  CASE method \in {"open", "click", "scroll_into_view"} -> {<<"a">>}
    [] method \in {"snapshot", "screenshot"} -> {<<"a">>, <<"b">>}
    [] OTHER -> {}

Result(ok, output) == [ok |-> ok, output |-> output]

\* The call reaches a method of the wrapper with arguments the method takes,
\* so that the wrapper runs an agent-browser command for it.
RunsCommand(call) ==
  LET method == MethodOf(call.name)
      keys == {p[1] : p \in call.args.m}
  IN /\ method \in BrowserMethods
     /\ call.args.t = "obj"
     /\ Required(method) \subseteq keys
     /\ keys \subseteq Accepted(method)

\* A _run_tool that lets the lookup of an unknown tool raise.
RunTool_Raises(call, backend) ==
  IF MethodOf(call.name) \notin BrowserMethods THEN {} ELSE backend

\* _run_tool: every result it can return for a call. backend is the set of
\* results the browser wrapper may produce for a call it accepts.
RunTool(call, backend) ==
  LET method == MethodOf(call.name)
      keys == {p[1] : p \in call.args.m}
  IN IF method \notin BrowserMethods THEN {Result(FALSE, "Unknown tool")}
     ELSE IF call.args.t # "obj" \/ ~(Required(method) \subseteq keys)
             \/ ~(keys \subseteq Accepted(method))
     THEN {Result(FALSE, "Tool error")}
     ELSE backend

\* The tool-result message _execute_tool_call builds: minimized for a successful
\* screenshot or snapshot, json.dumps(result) otherwise.
ToolMessage(call, result) ==
  LET id == IF call.call_id = "" THEN "unknown" ELSE call.call_id
  IN IF call.name = "browser_screenshot" /\ result.ok
     THEN format_tool_message(id, ResultContent("", result.ok, "[Screenshot captured]"))
     ELSE IF call.name = "browser_snapshot" /\ result.ok
     THEN format_tool_message(id, ResultContent("", result.ok, "[Snapshot summarized]"))
     ELSE format_tool_message(id, ResultContent("", result.ok, result.output))

\* _summarize_tool_result(tool_name, result)
SummarizeToolResult(tool_name, content) ==
  IF ~content.ok THEN "failed"
  ELSE CASE tool_name = "browser_open" -> "Opened URL"
         [] tool_name = "browser_snapshot" -> "Snapshot"
         [] tool_name = "browser_screenshot" -> "Captured screenshot"
         [] tool_name = "browser_click" -> "Clicked element"
         [] OTHER -> "executed"

\* The rewrite of one old message by the sliding window: a tool result becomes
\* {"tool": name, "ok": ok, "output": summary}, the name read from the stored
\* result's "tool" key ("unknown" when it has none).
SummarizeMessage(msg) ==
  IF msg.role # "tool" THEN msg
  ELSE LET tool_name == IF msg.content.tool = "" THEN "unknown" ELSE msg.content.tool
       IN [msg EXCEPT !.content =
             ResultContent(tool_name, msg.content.ok,
                           SummarizeToolResult(tool_name, msg.content))]

\* A window that keeps the oldest messages instead of the most recent ones.
SlidingWindow_KeepsOldest(msgs) ==
  IF Len(msgs) > MAX_HISTORY_MESSAGES THEN SubSeq(msgs, 1, MAX_SUMMARIZED_HISTORY) ELSE msgs

\* The sliding window of _execute_tool_call over self.messages.
SlidingWindow(msgs) ==
  IF Len(msgs) > MAX_HISTORY_MESSAGES
  THEN LET n == Len(msgs) - MAX_SUMMARIZED_HISTORY
           summarized == [i \in DOMAIN msgs |->
                            IF i <= n THEN SummarizeMessage(msgs[i]) ELSE msgs[i]]
       IN SubSeq(summarized, n + 1, Len(msgs))
  ELSE msgs

\* A tool return that also appends the tool-result message to the history.
HistoryAfterTool_Appended(msgs, tool_message) == SlidingWindow(Append(msgs, tool_message))

\* self.messages after _execute_tool_call: the tool-result message went to
\* api_messages only, and the sliding window is applied to the history.
HistoryAfterTool(msgs, tool_message) == SlidingWindow(msgs)

\* ------------------------------------------------------------------ tools.py

\* f"\n\n[Output truncated: {len(output)} total characters]"
TruncationMarker(length) ==
  <<"\n", "\n", "[", "O", "u", "t", "p", "u", "t", " ", "t", "r", "u", "n", "c", "a", "t", "e", "d", ":", " ">>
  \o NumToText(length) \o
  <<" ", "t", "o", "t", "a", "l", " ", "c", "h", "a", "r", "a", "c", "t", "e", "r", "s", "]">>

\* A truncate_output that also cuts an output of exactly max_size characters.
truncate_output_Strict(output, max_size) ==
  IF Len(output) < max_size THEN output
  ELSE SubSeq(output, 1, max_size) \o TruncationMarker(Len(output))

\* truncate_output(output, max_size), for max_size >= 0
truncate_output(output, max_size) ==
  IF Len(output) <= max_size THEN output
  ELSE SubSeq(output, 1, max_size) \o TruncationMarker(Len(output))

\* ------------------------------------------------------- agent_browser.py

\* truncate_output's default max_size
DefaultMaxSize == 50000

Whitespace == {" ", "\n"}
RECURSIVE Strip(_)
\* str.strip()
Strip(s) ==
  IF s = <<>> THEN s
  ELSE IF Head(s) \in Whitespace THEN Strip(Tail(s))
  ELSE IF s[Len(s)] \in Whitespace THEN Strip(SubSeq(s, 1, Len(s) - 1))
  ELSE s

\* The commands the wrapper's methods build: open(url) and fill(ref, text) put
\* their arguments into the list as they are, f"@{ref}" makes a string of any.
open(url) == <<JStr(<<"o", "p", "e", "n">>), url>>
fill(ref, text) == <<JStr(<<"f", "i", "l", "l">>), JStr(<<"@">> \o JsonDumps(ref)), text>>
AllStr(cmd) == \A i \in DOMAIN cmd : cmd[i].t = "str"

\* A result dict: "ok", "output", and the other keys it carries.
CommandResult(ok, output, extra) == [ok |-> ok, output |-> output, extra |-> extra]
NoResult == CommandResult(JFail, JFail, {})
Failure(text) == CommandResult(JBool(FALSE), JStr(text), {})
TimedOutText == <<"C", "o", "m", "m", "a", "n", "d", " ", "t", "i", "m", "e", "d", " ", "o", "u", "t", " ", "a", "f", "t", "e", "r">>
NotFoundText == <<"a", "g", "e", "n", "t", "-", "b", "r", "o", "w", "s", "e", "r", " ", "C", "L", "I", " ", "n", "o", "t", " ", "f", "o", "u", "n", "d">>
FailedText == <<"C", "o", "m", "m", "a", "n", "d", " ", "e", "x", "e", "c", "u", "t", "i", "o", "n", " ", "f", "a", "i", "l", "e", "d">>
ExitCodeText == <<"C", "o", "m", "m", "a", "n", "d", " ", "f", "a", "i", "l", "e", "d", " ", "w", "i", "t", "h", " ", "e", "x", "i", "t", " ", "c", "o", "d", "e">>

\* dict.get(key, default) on a decoded object
DictGet(obj, key, default) ==
  IF \E p \in obj.m : p[1] = key THEN (CHOOSE p \in obj.m : p[1] = key)[2] ELSE default

\* _run_command once communicate() has returned: the failure result for a
\* non-zero exit code; for a JSON object on stdout its "output" (len() of a
\* number raises, which the handler turns into a failure) and its other keys,
\* which replace "ok" when "ok" is among them; the stripped stdout otherwise.
Completed(returncode, stdout, stderr) ==
  LET output == Strip(stdout)
      parsed == JsonLoads(output)
      out == DictGet(parsed, <<"o", "u", "t", "p", "u", "t">>, JStr(output))
  IN IF returncode # 0
     THEN Failure(truncate_output(IF stderr # <<>> THEN stderr
                                  ELSE IF stdout # <<>> THEN stdout ELSE ExitCodeText,
                                  DefaultMaxSize))
     ELSE IF parsed.t = "obj"
     THEN IF out.t = "num" THEN Failure(FailedText)
          ELSE CommandResult(DictGet(parsed, <<"o", "k">>, JBool(TRUE)),
                             IF out.t = "str" THEN JStr(truncate_output(out.s, DefaultMaxSize))
                             ELSE out,
                             {p[1] : p \in parsed.m} \ {<<"o", "u", "t", "p", "u", "t">>})
     ELSE CommandResult(JBool(TRUE), JStr(truncate_output(output, DefaultMaxSize)), {})

\* ----------------------------------------------------------------- pricing

NoPricing == [set |-> FALSE, input |-> 0, output |-> 0]
Pricing(input, output) == [set |-> TRUE, input |-> input, output |-> output]

\* Prices are held in millionths of the number the code holds.
\* STATIC_PRICING[DEFAULT_MODEL] = {"input": 15.00, "output": 75.00}
StaticPricing == Pricing(15000000, 75000000)
\* A catalog entry {"prompt": "0.000015", "completion": "0.000075"}
LivePricing == Pricing(15, 75)

\* get_model_pricing: <<the result, the client's cache afterwards>> for each
\* outcome of the catalog lookup ("live": the model was found; "fallback": not).
GetModelPricing(outcome) ==
  IF client_cached_pricing.set THEN <<client_cached_pricing, client_cached_pricing>>
  ELSE IF outcome = "live" THEN <<LivePricing, LivePricing>>
  ELSE <<StaticPricing, client_cached_pricing>>

DEFAULT_MODEL == "anthropic/claude-sonnet-4"
\* STATIC_PRICING.get(model_name, {"input": 0.0, "output": 0.0})
StaticEntry(model_name) ==
  CASE model_name = "anthropic/claude-sonnet-4" -> Pricing(15000000, 75000000)
    [] model_name = "anthropic/claude-3.5-sonnet" -> Pricing(3000000, 15000000)
    [] model_name = "anthropic/claude-3-haiku" -> Pricing(250000, 1250000)
    [] model_name = "openai/gpt-4o" -> Pricing(2500000, 10000000)
    [] model_name = "openai/gpt-4o-mini" -> Pricing(150000, 600000)
    [] model_name = "google/gemini-2.0-flash-exp" -> Pricing(75000, 300000)
    [] model_name = "meta-llama/llama-3.1-405b-instruct" -> Pricing(700000, 700000)
    [] OTHER -> Pricing(0, 0)

\* float(text) for the price texts of the catalog, in millionths; ok = FALSE
\* for ValueError.
Float(text) ==
  CASE text = <<"0", ".", "0", "0", "0", "0", "1", "5">> -> [ok |-> TRUE, v |-> 15]
    [] text = <<"0", ".", "0", "0", "0", "0", "7", "5">> -> [ok |-> TRUE, v |-> 75]
    [] text = <<"0", ".", "0", "0", "0", "0", "0", "3">> -> [ok |-> TRUE, v |-> 3]
    [] text = <<"0">> -> [ok |-> TRUE, v |-> 0]
    [] OTHER -> [ok |-> FALSE, v |-> 0]

\* A catalog entry {"id", "pricing": {"prompt", "completion"}}, and one
\* without "pricing".
Entry(id, prompt, completion) ==
  [id |-> id, priced |-> TRUE, prompt |-> prompt, completion |-> completion]
EntryNoPricing(id) == [id |-> id, priced |-> FALSE, prompt |-> <<"0">>, completion |-> <<"0">>]

RECURSIVE Lookup(_, _)
\* The for loop over the models: the prices of the first entry with the id,
\* "raised" when float() rejects one of them, "unlisted" when there is none.
Lookup(model_name, models) ==
  IF models = <<>> THEN [found |-> "unlisted", price |-> NoPricing]
  ELSE IF Head(models).id # model_name THEN Lookup(model_name, Tail(models))
  ELSE LET input == Float(Head(models).prompt)
           output == Float(Head(models).completion)
       IN IF input.ok /\ output.ok
          THEN [found |-> "listed", price |-> Pricing(input.v, output.v)]
          ELSE [found |-> "raised", price |-> NoPricing]

\* A get_model_pricing whose fallback is the zero prices for every model.
get_model_pricing_NoStatic(model_name, cache, catalog) ==
  IF cache.set THEN [result |-> cache, cache |-> cache, raised |-> "none", queried |-> FALSE]
  ELSE LET hit == IF catalog.request = "ok" /\ catalog.status = 200
                     /\ catalog.body = "models"
                  THEN Lookup(model_name, catalog.models)
                  ELSE [found |-> "none", price |-> NoPricing]
       IN IF hit.found = "listed"
          THEN [result |-> hit.price, cache |-> hit.price, raised |-> "none", queried |-> TRUE]
          ELSE [result |-> Pricing(0, 0), cache |-> cache, raised |-> "none", queried |-> TRUE]

\* A get_model_pricing that caches what it returns, the fallback included.
get_model_pricing_CachesFallback(model_name, cache, catalog) ==
  IF cache.set THEN [result |-> cache, cache |-> cache, raised |-> "none", queried |-> FALSE]
  ELSE LET hit == IF catalog.request = "ok" /\ catalog.status = 200
                     /\ catalog.body = "models"
                  THEN Lookup(model_name, catalog.models)
                  ELSE [found |-> "none", price |-> NoPricing]
           got == IF hit.found = "listed" THEN hit.price
                  ELSE [StaticEntry(model_name) EXCEPT !.set = TRUE]
       IN [result |-> got, cache |-> got, raised |-> "none", queried |-> TRUE]

\* get_model_pricing(model_name) on a client whose cache is `cache`, for the
\* catalog request's outcome: the cached prices; else the prices of the listed
\* model, which are cached; else, whatever went wrong inside the try block,
\* the static entry. "queried": the catalog endpoint was requested.
get_model_pricing(model_name, cache, catalog) ==
  IF cache.set THEN [result |-> cache, cache |-> cache, raised |-> "none", queried |-> FALSE]
  ELSE LET hit == IF catalog.request = "ok" /\ catalog.status = 200
                     /\ catalog.body = "models"
                  THEN Lookup(model_name, catalog.models)
                  ELSE [found |-> "none", price |-> NoPricing]
       IN IF hit.found = "listed"
          THEN [result |-> hit.price, cache |-> hit.price, raised |-> "none", queried |-> TRUE]
          ELSE [result |-> StaticEntry(model_name), cache |-> cache, raised |-> "none",
                queried |-> TRUE]

\* The numerator of the cost: the code divides it by 1_000_000.
CostNum(pt, ct, price) == pt * price.input + ct * price.output


\* ---------------------------------------------------------------- actions

\* What the Gateway has delivered: the sums of the prompt_tokens and
\* completion_tokens of the fragments received since the controller was
\* created or reset, and of those received in the current task.
NoUsageReceived == [prompt |-> 0, completion |-> 0, task_prompt |-> 0, task_completion |-> 0]
Received(sums, c) ==
  IF c.has_usage
  THEN [prompt |-> sums.prompt + c.prompt_tokens,
        completion |-> sums.completion + c.completion_tokens,
        task_prompt |-> sums.task_prompt + c.prompt_tokens,
        task_completion |-> sums.task_completion + c.completion_tokens]
  ELSE sums

\* An exception object: its class, the head of its message, and the status
\* code the message carries (0: none).
NoError == [type |-> "none", message |-> "none", status |-> 0]
Raised(type) == [type |-> type, message |-> type, status |-> 0]
OpenRouterError(message, status) ==
  [type |-> "OpenRouterError", message |-> message, status |-> status]

\* No function call is being followed.
NoCall == [fn |-> "none", pc |-> "none"]

\* stream_chat_completion, not called: no response, nothing read or yielded.
GwIdle == [pc |-> "idle", status |-> 0, lines |-> <<>>, pos |-> 0, yielded |-> <<>>,
           error |-> NoError, cause |-> "none"]

Init ==
  /\ pc = "idle"
  /\ messages = <<>>
  /\ api_messages = <<>>
  /\ recent_actions = <<>>
  /\ total_prompt_tokens = 0
  /\ total_completion_tokens = 0
  /\ query_prompt_tokens = 0
  /\ query_completion_tokens = 0
  /\ cached_pricing = NoPricing
  /\ client_cached_pricing = NoPricing
  /\ iteration = 0
  /\ accumulated_tool_calls = <<>>
  /\ tool_call_args_buffers = <<>>
  /\ assistant_tool_calls = <<>>
  /\ assistant_accumulated_content = <<>>
  /\ exec_i = 0
  /\ response = <<>>
  /\ chunks_seen = 0
  /\ gw_error = "none"
  /\ emitted = NoEvents
  /\ last_event = "none"
  /\ turn_events = <<>>
  /\ usage_event = NoUsageEvent
  /\ model_calls = 0
  /\ received_usage = NoUsageReceived
  /\ gw = GwIdle
  /\ invoked = NoCall
  /\ browser = [wrapper |-> "attached", commands |-> 0]

\* process_task up to the while loop: the user message is appended, the
\* per-query counters are reset, api_messages is built.
StartTask(P) ==
  /\ pc = "idle"
  /\ Len(messages) <= P.max_start_history
  /\ messages' = Append(messages, format_message("user", TextContent(UserTask)))
  /\ query_prompt_tokens' = 0
  /\ query_completion_tokens' = 0
  /\ api_messages' = <<format_message("system", TextContent(SystemPrompt))>> \o messages'
  /\ iteration' = 0
  /\ accumulated_tool_calls' = <<>>
  /\ tool_call_args_buffers' = <<>>
  /\ assistant_tool_calls' = <<>>
  /\ assistant_accumulated_content' = <<>>
  /\ exec_i' = 0
  /\ response' = <<>>
  /\ chunks_seen' = 0
  /\ gw_error' = "none"
  /\ emitted' = NoEvents
  /\ last_event' = "none"
  /\ turn_events' = <<>>
  /\ usage_event' = NoUsageEvent
  /\ model_calls' = 0
  /\ pc' = "loop"
  /\ received_usage' = [received_usage EXCEPT !.task_prompt = 0, !.task_completion = 0]
  /\ browser' = [browser EXCEPT !.commands = 0]
  /\ UNCHANGED <<gw, invoked, recent_actions, total_prompt_tokens, total_completion_tokens, pricing>>

\* The loop test that lets one iteration too many through.
LoopContinues_OneMore == iteration <= max_iterations

\* while iteration < self.max_iterations
LoopContinues == iteration < max_iterations

\* The usage counters a response carries in all.
RECURSIVE ResponseTokens(_, _)
ResponseTokens(r, field) ==
  IF r = <<>> THEN 0
  ELSE (IF Head(r).has_usage THEN Head(r)[field] ELSE 0) + ResponseTokens(Tail(r), field)

\* The responses the Gateway may give to the next call of a task: a profile
\* names those to a task's first call and those to its later calls.
Responses(P) == IF iteration = 0 THEN P.first_responses ELSE P.later_responses

\* The head of an iteration: message_start is yielded, the turn's state is
\* reset, and stream_chat_completion is called; the Gateway's response to the
\* call is one of the profile's.
IterStart(P) ==
  /\ pc = "loop"
  /\ LoopContinues
  /\ \E r \in Responses(P) :
       /\ received_usage.prompt + ResponseTokens(r, "prompt_tokens") <= MaxTokens
       /\ received_usage.completion + ResponseTokens(r, "completion_tokens") <= MaxTokens
       /\ response' = r
  /\ iteration' = iteration + 1
  /\ emitted' = Emit(emitted, "message_start")
  /\ last_event' = "message_start"
  /\ assistant_accumulated_content' = <<>>
  /\ assistant_tool_calls' = <<>>
  /\ accumulated_tool_calls' = <<>>
  /\ tool_call_args_buffers' = <<>>
  /\ turn_events' = <<>>
  /\ chunks_seen' = 0
  /\ model_calls' = model_calls + 1
  /\ pc' = "stream"
  /\ UNCHANGED <<gw, invoked, browser, received_usage, session, pricing, api_messages, exec_i, gw_error, usage_event>>

\* The loop test fails: the iteration cap is reached.
LoopExit ==
  /\ pc = "loop"
  /\ ~LoopContinues
  /\ pc' = "finish"
  /\ UNCHANGED <<gw, invoked, browser, received_usage, session, pricing, api_messages, iteration, turn, exec_i, response, chunks_seen,
                 gw_error, emitted, last_event, turn_events, usage_event, model_calls>>

\* The stream yields its next fragment and the loop body handles it; an
\* exception of the body is caught by `except Exception`: error event, break.
StreamChunk ==
  /\ pc = "stream"
  /\ chunks_seen < Len(response)
  /\ \E h \in {HandleChunk(response[chunks_seen + 1])} :
        /\ total_prompt_tokens' = h.tp
        /\ total_completion_tokens' = h.tc
        /\ assistant_accumulated_content' = h.content
        /\ accumulated_tool_calls' = h.calls
        /\ tool_call_args_buffers' = h.bufs
        /\ assistant_tool_calls' = h.atc
        /\ chunks_seen' = chunks_seen + 1
        /\ IF h.raised
           THEN /\ emitted' = Emit(IF h.said THEN Emit(emitted, "content") ELSE emitted,
                                   "error")
                /\ last_event' = "error"
                /\ gw_error' = "internal"
                /\ pc' = "finish"
           ELSE /\ emitted' = IF h.said THEN Emit(emitted, "content") ELSE emitted
                /\ last_event' = IF h.said THEN "content" ELSE last_event
                /\ gw_error' = gw_error
                /\ pc' = "stream"
  /\ received_usage' = Received(received_usage, response[chunks_seen + 1])
  /\ UNCHANGED <<gw, invoked, browser, messages, recent_actions, query_prompt_tokens, query_completion_tokens,
                 pricing, api_messages, iteration, exec_i, response, turn_events,
                 usage_event, model_calls>>

\* A handler of a Gateway failure that rolls the history back to before the task.
StreamRaise_Rollback(P) ==
  /\ pc = "stream"
  /\ \E kind \in P.failures :
       /\ kind = "status" => chunks_seen = 0
       /\ gw_error' = kind
  /\ emitted' = Emit(emitted, "error")
  /\ last_event' = "error"
  /\ pc' = "finish"
  /\ messages' = SubSeq(messages, 1, Len(messages) - 1)
  /\ UNCHANGED <<gw, invoked, browser, received_usage, recent_actions, total_prompt_tokens, total_completion_tokens,
                 query_prompt_tokens, query_completion_tokens,
                 pricing, api_messages, iteration, turn, exec_i, response, chunks_seen,
                 turn_events, usage_event, model_calls>>

\* A handler of a Gateway failure that tries the call again.
StreamRaise_Retry(P) ==
  /\ pc = "stream"
  /\ \E kind \in P.failures :
       /\ kind = "status" => chunks_seen = 0
       /\ gw_error' = kind
  /\ emitted' = Emit(emitted, "error")
  /\ last_event' = "error"
  /\ pc' = "loop"
  /\ UNCHANGED <<gw, invoked, browser, received_usage, session, pricing, api_messages, iteration, turn, exec_i, response, chunks_seen,
                 turn_events, usage_event, model_calls>>

\* A handler of a Gateway failure that returns instead of breaking: the task
\* ends at once, without the usage summary.
StreamRaise_Return(P) ==
  /\ pc = "stream"
  /\ \E kind \in P.failures :
       /\ kind = "status" => chunks_seen = 0
       /\ gw_error' = kind
  /\ emitted' = Emit(emitted, "error")
  /\ last_event' = "error"
  /\ pc' = "idle"
  /\ UNCHANGED <<gw, invoked, browser, received_usage, session, pricing, api_messages, iteration, turn, exec_i, response, chunks_seen,
                 turn_events, usage_event, model_calls>>

\* stream_chat_completion raises OpenRouterError: a non-200 status (before any
\* fragment), a timeout or another transport error (at any point). The loop
\* yields one error event and breaks.
StreamRaise(P) ==
  /\ pc = "stream"
  /\ \E kind \in P.failures :
       /\ kind = "status" => chunks_seen = 0
       /\ gw_error' = kind
  /\ emitted' = Emit(emitted, "error")
  /\ last_event' = "error"
  /\ pc' = "finish"
  /\ UNCHANGED <<gw, invoked, browser, received_usage, session, pricing, api_messages, iteration, turn, exec_i, response, chunks_seen,
                 turn_events, usage_event, model_calls>>

\* The turn's continuation test reading the text instead of the tool calls.
TurnIsFinal_ByContent == assistant_accumulated_content # <<>>

\* if not assistant_tool_calls: break
TurnIsFinal == assistant_tool_calls = <<>>

\* A stream end that goes on to the tool calls before the assistant message
\* is in api_messages.
StreamEnd_ExecFirst ==
  /\ pc = "stream"
  /\ chunks_seen = Len(response)
  /\ messages' = Append(messages,
                        AssistantMessage(assistant_accumulated_content, assistant_tool_calls))
  /\ emitted' = Emit(emitted, "message_end")
  /\ last_event' = "message_end"
  /\ exec_i' = 1
  /\ pc' = IF accumulated_tool_calls # <<>> THEN "exec"
           ELSE IF TurnIsFinal THEN "finish" ELSE "loop"
  /\ UNCHANGED <<gw, invoked, browser, received_usage, recent_actions, total_prompt_tokens, total_completion_tokens,
                 query_prompt_tokens, query_completion_tokens, pricing, api_messages, iteration,
                 turn, response, chunks_seen, gw_error, turn_events, usage_event, model_calls>>

\* The stream ends ([DONE] or end of the response): the assistant message is
\* appended to the history and to api_messages, message_end is yielded, and
\* the loop goes on to the turn's tool calls (or to its continuation test).
StreamEnd ==
  /\ pc = "stream"
  /\ chunks_seen = Len(response)
  /\ LET m == AssistantMessage(assistant_accumulated_content, assistant_tool_calls)
     IN /\ messages' = Append(messages, m)
        /\ api_messages' = Append(api_messages, m)
  /\ emitted' = Emit(emitted, "message_end")
  /\ last_event' = "message_end"
  /\ exec_i' = 1
  /\ pc' = IF accumulated_tool_calls # <<>> THEN "exec"
           ELSE IF TurnIsFinal THEN "finish" ELSE "loop"
  /\ UNCHANGED <<gw, invoked, browser, received_usage, recent_actions, total_prompt_tokens, total_completion_tokens,
                 query_prompt_tokens, query_completion_tokens, pricing, iteration, turn,
                 response, chunks_seen, gw_error, turn_events, usage_event, model_calls>>

\* `if not tool_call.args` fails: the call is taken to be complete.
ArgsComplete(call) == Truthy(call.args)

\* A tool call whose args are falsy: an error event, and on to the next call.
ExecSkip ==
  /\ pc = "exec"
  /\ exec_i <= Len(accumulated_tool_calls)
  /\ LET call == accumulated_tool_calls[exec_i]
     IN /\ ~ArgsComplete(call)
        /\ turn_events' = Append(turn_events,
             [event |-> "error", name |-> call.name, args |-> call.args,
              call_id |-> call.call_id, loops |-> 0])
  /\ emitted' = Emit(emitted, "error")
  /\ last_event' = "error"
  /\ exec_i' = exec_i + 1
  /\ UNCHANGED <<gw, invoked, browser, received_usage, pc, session, pricing, api_messages, iteration, turn, response,
                 chunks_seen, gw_error, usage_event, model_calls>>

\* A dispatch that leaves the loop when it has yielded loop_detected.
ExecDispatch_StopOnLoop ==
  /\ pc = "exec"
  /\ exec_i <= Len(accumulated_tool_calls)
  /\ LET call == accumulated_tool_calls[exec_i]
         sig == ActionSig(call)
         ring == PushRing(recent_actions, sig)
         loop == ExactLoop(ring, sig)
     IN /\ ArgsComplete(call)
        /\ recent_actions' = ring
        /\ emitted' = Emit(IF loop THEN Emit(emitted, "loop_detected") ELSE emitted,
                           "tool_call")
        /\ turn_events' = Append(turn_events,
             [event |-> "tool_call", name |-> call.name, args |-> call.args,
              call_id |-> call.call_id, loops |-> IF loop THEN 1 ELSE 0])
  /\ last_event' = "tool_call"
  /\ pc' = IF ExactLoop(PushRing(recent_actions, ActionSig(accumulated_tool_calls[exec_i])),
                       ActionSig(accumulated_tool_calls[exec_i]))
           THEN "finish" ELSE "tool"
  /\ UNCHANGED <<gw, invoked, browser, received_usage, messages, total_prompt_tokens, total_completion_tokens,
                 query_prompt_tokens, query_completion_tokens, pricing, api_messages,
                 iteration, turn, exec_i, response, chunks_seen, gw_error, usage_event, model_calls>>

\* A tool call with args: its signature is pushed onto the ring, loop_detected
\* is yielded on exact repetition, tool_call is yielded and _run_tool awaited.
ExecDispatch ==
  /\ pc = "exec"
  /\ exec_i <= Len(accumulated_tool_calls)
  /\ LET call == accumulated_tool_calls[exec_i]
         sig == ActionSig(call)
         ring == PushRing(recent_actions, sig)
         loop == ExactLoop(ring, sig)
     IN /\ ArgsComplete(call)
        /\ recent_actions' = ring
        /\ emitted' = Emit(IF loop THEN Emit(emitted, "loop_detected") ELSE emitted,
                           "tool_call")
        /\ turn_events' = Append(turn_events,
             [event |-> "tool_call", name |-> call.name, args |-> call.args,
              call_id |-> call.call_id, loops |-> IF loop THEN 1 ELSE 0])
  /\ last_event' = "tool_call"
  /\ pc' = "tool"
  /\ UNCHANGED <<gw, invoked, browser, received_usage, messages, total_prompt_tokens, total_completion_tokens,
                 query_prompt_tokens, query_completion_tokens, pricing, api_messages,
                 iteration, turn, exec_i, response, chunks_seen, gw_error, usage_event, model_calls>>

\* _run_tool returns: the tool-result message is appended to api_messages, and
\* the sliding window is applied to self.messages.
ToolReturn(P) ==
  /\ pc = "tool"
  /\ LET call == accumulated_tool_calls[exec_i]
     IN /\ \E result \in RunTool(call, P.backend) :
             /\ api_messages' = Append(api_messages, ToolMessage(call, result))
             /\ messages' = HistoryAfterTool(messages, ToolMessage(call, result))
        /\ browser' = IF RunsCommand(call) THEN [browser EXCEPT !.commands = @ + 1]
                      ELSE browser
  /\ exec_i' = exec_i + 1
  /\ pc' = "exec"
  /\ UNCHANGED <<gw, invoked, received_usage, recent_actions, total_prompt_tokens, total_completion_tokens,
                 query_prompt_tokens, query_completion_tokens, pricing, iteration, turn,
                 response, chunks_seen, gw_error, emitted, last_event, turn_events, usage_event,
                 model_calls>>

\* The for loop over the turn's tool calls is over: break when the turn had no
\* tool calls, else back to the loop test.
ExecDone ==
  /\ pc = "exec"
  /\ exec_i > Len(accumulated_tool_calls)
  /\ pc' = IF TurnIsFinal THEN "finish" ELSE "loop"
  /\ UNCHANGED <<gw, invoked, browser, received_usage, session, pricing, api_messages, iteration, turn, exec_i, response, chunks_seen,
                 gw_error, emitted, last_event, turn_events, usage_event, model_calls>>

\* After the loop: the warning when the iteration count is at the cap, the
\* pricing lookup (cached by the controller), the usage event; the generator
\* returns and its locals are gone.
Finish(P) ==
  /\ pc = "finish"
  /\ \E outcome \in P.pricing_outcomes :
       LET got == IF cached_pricing.set THEN <<cached_pricing, client_cached_pricing>>
                  ELSE GetModelPricing(outcome)
           price == got[1]
           warn == iteration >= max_iterations
       IN /\ cached_pricing' = price
          /\ client_cached_pricing' = got[2]
          /\ emitted' = Emit(IF warn THEN Emit(emitted, "warning") ELSE emitted, "usage")
          /\ usage_event' =
               [prompt_tokens |-> total_prompt_tokens,
                completion_tokens |-> total_completion_tokens,
                query_prompt_tokens |-> query_prompt_tokens,
                query_completion_tokens |-> query_completion_tokens,
                cost_num |-> CostNum(total_prompt_tokens, total_completion_tokens, price),
                query_cost_num |->
                  CostNum(query_prompt_tokens, query_completion_tokens, price)]
  /\ last_event' = "usage"
  /\ pc' = "idle"
  /\ api_messages' = <<>>
  /\ iteration' = 0
  /\ accumulated_tool_calls' = <<>>
  /\ tool_call_args_buffers' = <<>>
  /\ assistant_tool_calls' = <<>>
  /\ assistant_accumulated_content' = <<>>
  /\ exec_i' = 0
  /\ response' = <<>>
  /\ chunks_seen' = 0
  /\ UNCHANGED <<gw, invoked, browser, received_usage, session, gw_error, turn_events, model_calls>>

\* A reset that also runs the wrapper's close command.
Reset_ClosesBrowser ==
  /\ pc = "idle"
  /\ messages' = <<>>
  /\ recent_actions' = <<>>
  /\ total_prompt_tokens' = 0
  /\ total_completion_tokens' = 0
  /\ received_usage' = [received_usage EXCEPT !.prompt = 0, !.completion = 0]
  /\ browser' = [browser EXCEPT !.commands = @ + 1]
  /\ UNCHANGED <<gw, invoked, pc, query_prompt_tokens, query_completion_tokens, pricing, api_messages,
                 iteration, turn, exec_i, response, chunks_seen, gw_error, emitted, last_event,
                 turn_events, usage_event, model_calls>>

\* One step of the controller under the inputs of profile P.

\* reset(): the history, the ring and the cumulative counters are cleared.
Reset ==
  /\ pc = "idle"
  /\ messages' = <<>>
  /\ recent_actions' = <<>>
  /\ total_prompt_tokens' = 0
  /\ total_completion_tokens' = 0
  /\ received_usage' = [received_usage EXCEPT !.prompt = 0, !.completion = 0]
  /\ UNCHANGED <<gw, invoked, browser, pc, query_prompt_tokens, query_completion_tokens, pricing, api_messages,
                 iteration, turn, exec_i, response, chunks_seen, gw_error, emitted, last_event,
                 turn_events, usage_event, model_calls>>

\* One step of the controller under the inputs of profile P.
NextP(P) ==
  \/ StartTask(P)
  \/ IterStart(P)
  \/ LoopExit
  \/ StreamChunk
  \/ StreamRaise(P)
  \/ StreamEnd
  \/ ExecSkip
  \/ ExecDispatch
  \/ ToolReturn(P)
  \/ ExecDone
  \/ Finish(P)
  \/ Reset


\* ---------------------------------------------------------------- profiles

\* Argument texts the model streams: {"a":1} and {}.
TextA == <<"{", Quote, "a", Quote, ":", "1", "}">>
TextEmpty == <<"{", "}">>

\* The backend's results for a call it accepts: success, or ok = false.
BackendResults == {Result(TRUE, "raw"), Result(FALSE, "raw")}

CallIds == <<"c1", "c2", "c3", "c4", "c5", "c6", "c7", "c8", "c9", "c10", "c11", "c12",
             "c13", "c14", "c15", "c16">>
ContentChunk(t) == Chunk(FALSE, t, FALSE, 0, "", "", <<>>, FALSE, 0, 0)
OpenChunk(index, name, arguments) ==
  Chunk(FALSE, <<>>, TRUE, index, CallIds[index + 1], name, arguments, FALSE, 0, 0)
ArgsChunk(index, arguments) == Chunk(FALSE, <<>>, TRUE, index, "", "", arguments, FALSE, 0, 0)
UsageChunk(choices_empty, pt, ct) ==
  Chunk(choices_empty, <<>>, FALSE, 0, "", "", <<>>, TRUE, pt, ct)

\* All sequences over S of length at most n.
SeqsUpTo(S, n) == UNION {[1..k -> S] : k \in 0..n}

\* Whole turns. A turn that calls tools: one or two tool calls, the k-th with
\* index k - 1 and its argument text whole in the opening fragment, or none
\* at all. A turn that ends the task: nothing, or the model's text, alone or
\* followed by the usage counters. And a turn whose only fragment carries the
\* usage counters and an empty "choices" list.
ToolTurns ==
  {<<OpenChunk(0, "browser_open", TextA)>>,
   <<OpenChunk(0, "browser_open", <<>>)>>,
   <<OpenChunk(0, "browser_open", TextA), OpenChunk(1, "browser_open", TextA)>>,
   <<OpenChunk(0, "browser_open", <<>>), OpenChunk(1, "browser_open", TextA)>>}
FinalTurns ==
  {<<>>, <<ContentChunk(<<"t">>)>>, <<ContentChunk(<<"t">>), UsageChunk(FALSE, 2, 1)>>,
   <<UsageChunk(TRUE, 2, 1)>>}
FlowResponses == ToolTurns \cup FinalTurns

FlowProfile ==
  [first_responses |-> FlowResponses, later_responses |-> FlowResponses,
   failures |-> GatewayFailures, backend |-> BackendResults,
   pricing_outcomes |-> {"live", "fallback"}, max_start_history |-> MaxStartHistory]

Next == NextP(FlowProfile)
Spec == Init /\ [][Next]_vars

\* The ways of cutting a text into exactly n consecutive pieces, empty ones
\* included.
RECURSIVE Splits(_, _)
Splits(text, n) ==
  IF n = 1 THEN {<<text>>}
  ELSE UNION {{<<SubSeq(text, 1, c)>> \o rest :
                 rest \in Splits(SubSeq(text, c + 1, Len(text)), n - 1)} :
              c \in 0..Len(text)}

\* Argument texts that do not decode: {"a":1}} decodes up to its last character
\* only, {"a":1 never. And 11, of which the first character alone decodes too.
TextAExtra == TextA \o <<"}">>
TextCut == SubSeq(TextA, 1, 6)
TextNum == <<"1", "1">>

\* One tool call whose argument text arrives in the given pieces: the first
\* in the fragment that opens the call, the others in fragments of their own,
\* which name the call by its index or leave the index out.
FragmentTurn(name, pieces, index) ==
  <<OpenChunk(0, name, pieces[1])>>
    \o [k \in 1..(Len(pieces) - 1) |-> ArgsChunk(index, pieces[k + 1])]

ArgCalls ==
  {<<"browser_open", TextA>>, <<"browser_get_title", TextEmpty>>,
   <<"browser_open", TextAExtra>>, <<"browser_open", TextCut>>, <<"browser_open", TextNum>>}
ArgsResponses ==
  UNION {{FragmentTurn(c[1], pieces, index) :
            pieces \in Splits(c[2], MaxFrags), index \in {0, -1}} : c \in ArgCalls}

ArgsProfile ==
  [first_responses |-> ArgsResponses,
   later_responses |-> {<<>>, <<OpenChunk(0, "browser_open", TextA)>>},
   failures |-> {"timeout"}, backend |-> BackendResults,
   pricing_outcomes |-> {"fallback"}, max_start_history |-> FreshHistory]

NextArgs == NextP(ArgsProfile)
SpecArgs == Init /\ [][NextArgs]_vars

\* {"a":1, "b":1} in its two spellings, which json.dumps(sort_keys=True) maps
\* to one signature.
TextAB == <<"{", Quote, "a", Quote, ":", "1", ",", Quote, "b", Quote, ":", "1", "}">>
TextBA == <<"{", Quote, "b", Quote, ":", "1", ",", Quote, "a", Quote, ":", "1", "}">>

\* A turn of snapshot calls, one per letter of w: "x" asks for {"a":1, "b":1},
\* spelled in turn one way and the other, "y" for {"a":1}.
LoopTurn(w) ==
  [k \in 1..Len(w) |->
     OpenChunk(k - 1, "browser_snapshot",
               IF w[k] = "y" THEN TextA ELSE IF k % 2 = 1 THEN TextAB ELSE TextBA)]

\* How often w changes letter.
Switches(w) == Cardinality({k \in 1..(Len(w) - 1) : w[k] # w[k + 1]})
LoopWords == {w \in SeqsUpTo({"x", "y"}, MaxLoopCalls) : Switches(w) <= MaxSwitches}

LoopProfile ==
  [first_responses |-> {LoopTurn(w) : w \in LoopWords},
   later_responses |-> {<<OpenChunk(0, "browser_snapshot", <<>>)>>},
   failures |-> {"status"}, backend |-> {Result(TRUE, "raw")},
   pricing_outcomes |-> {"fallback"}, max_start_history |-> FreshHistory]

NextLoop == NextP(LoopProfile)
SpecLoop == Init /\ [][NextLoop]_vars

\* Tool calls of four kinds: one the backend runs (and may fail), one whose
\* name has no method on the wrapper, one whose arguments (the number 11) the
\* method call rejects, and one whose arguments never arrive.
ToolCalls ==
  {<<"browser_open", TextA>>, <<"browser_bogus", TextA>>, <<"browser_open", TextNum>>,
   <<"browser_open", <<>> >>}

\* A turn that opens the calls of w, in order, each whole in its opening fragment.
ToolTurn(w) == [k \in 1..Len(w) |-> OpenChunk(k - 1, w[k][1], w[k][2])]

ToolsProfile ==
  [first_responses |-> {ToolTurn(w) : w \in SeqsUpTo(ToolCalls, MaxToolCalls)},
   later_responses |-> {<<>>, ToolTurn(<< <<"browser_bogus", TextA>> >>)},
   failures |-> {"timeout"}, backend |-> BackendResults,
   pricing_outcomes |-> {"fallback"}, max_start_history |-> FreshHistory]

NextTools == NextP(ToolsProfile)
SpecTools == Init /\ [][NextTools]_vars

\* Tasks on histories of up to MAX_HISTORY_MESSAGES messages, so that a tool
\* return finds the history above the high-water mark: a first turn with one
\* tool call, then the end of the task or a turn whose call has no arguments.
WindowProfile ==
  [first_responses |-> {ToolTurn(<< <<"browser_open", TextA>> >>)},
   later_responses |-> {<<>>, ToolTurn(<< <<"browser_open", <<>> >> >>)},
   failures |-> {"status"}, backend |-> {Result(TRUE, "raw")},
   pricing_outcomes |-> {"fallback"}, max_start_history |-> MAX_HISTORY_MESSAGES]

NextWindow == NextP(WindowProfile)
SpecWindow == Init /\ [][NextWindow]_vars

\* Turns whose tool calls are assembled from several fragments. The argument
\* texts {"a":1} and {"a":1,"b":1} arrive in two pieces each.
PieceA1 == SubSeq(TextA, 1, 5)
PieceA2 == SubSeq(TextA, 6, Len(TextA))
PieceB1 == SubSeq(TextAB, 1, 7)
PieceB2 == SubSeq(TextAB, 8, Len(TextAB))

\* An opening fragment that carries no "id" key.
OpenChunkNoId(index, name, arguments) ==
  Chunk(FALSE, <<>>, TRUE, index, "", name, arguments, FALSE, 0, 0)

\* The argument fragments of two calls, interleaved: {"a":1} for index 0 and
\* {"a":1,"b":1} for index 1.
Interleaved ==
  <<ArgsChunk(0, PieceA1), ArgsChunk(1, PieceB1), ArgsChunk(0, PieceA2),
    ArgsChunk(1, PieceB2)>>

\* Two calls opened in index order, or index 1 first; one call whose only
\* index is 1; one call without an id; one call between two pieces of text.
AssemblyTurns ==
  {<<OpenChunk(0, "browser_open", <<>>), OpenChunk(1, "browser_click", <<>>)>> \o Interleaved,
   <<OpenChunk(1, "browser_click", <<>>), OpenChunk(0, "browser_open", <<>>)>> \o Interleaved,
   <<OpenChunk(1, "browser_open", TextA)>>,
   <<OpenChunkNoId(0, "browser_open", TextA)>>,
   <<OpenChunkNoId(0, "browser_open", <<>>), ArgsChunk(0, TextA)>>,
   <<ContentChunk(<<"t">>), OpenChunk(0, "browser_open", TextA), ContentChunk(<<"u">>)>>}

AssemblyProfile ==
  [first_responses |-> AssemblyTurns,
   later_responses |-> {<<>>, <<ContentChunk(<<"t">>), ContentChunk(<<"u">>)>>,
                        <<OpenChunk(0, "browser_open", <<>>)>>,
                        <<OpenChunk(0, "browser_get_title", TextEmpty)>>},
   failures |-> {"timeout"}, backend |-> {Result(TRUE, "raw")},
   pricing_outcomes |-> {"fallback"}, max_start_history |-> FreshHistory]

NextAssembly == NextP(AssemblyProfile)
SpecAssembly == Init /\ [][NextAssembly]_vars

\* Tasks whose first turn asks for up to MaxToolCalls snapshots, screenshots
\* and page loads, which the backend runs or fails.
SummaryCalls ==
  {<<"browser_snapshot", TextA>>, <<"browser_screenshot", TextA>>, <<"browser_open", TextA>>}
SummaryProfile ==
  [first_responses |-> {ToolTurn(w) : w \in SeqsUpTo(SummaryCalls, MaxToolCalls)},
   later_responses |-> {<<>>, ToolTurn(<< <<"browser_snapshot", <<>> >> >>)},
   failures |-> {"timeout"}, backend |-> BackendResults,
   pricing_outcomes |-> {"fallback"}, max_start_history |-> FreshHistory]

NextSummary == NextP(SummaryProfile)
SpecSummary == Init /\ [][NextSummary]_vars

\* A turn of n calls that alternate between a snapshot and a click.
AlternatingTurn(n) ==
  [k \in 1..n |->
     OpenChunk(k - 1, IF k % 2 = 1 THEN "browser_snapshot" ELSE "browser_click", TextA)]

AlternatingProfile ==
  [first_responses |-> {AlternatingTurn(n) : n \in 0..MaxLoopCalls},
   later_responses |-> {<<OpenChunk(0, "browser_snapshot", <<>>)>>},
   failures |-> {"status"}, backend |-> {Result(TRUE, "raw")},
   pricing_outcomes |-> {"fallback"}, max_start_history |-> FreshHistory]

NextAlternating == NextP(AlternatingProfile)
SpecAlternating == Init /\ [][NextAlternating]_vars

\* The action names of TOOLS, the catalog advertised to the model.
CatalogNames ==
  {"browser_open", "browser_snapshot", "browser_click", "browser_fill", "browser_get_text",
   "browser_get_value", "browser_get_url", "browser_get_title", "browser_hover",
   "browser_scroll", "browser_select", "browser_press", "browser_type", "browser_check",
   "browser_uncheck", "browser_wait", "browser_back", "browser_forward", "browser_reload",
   "browser_screenshot", "browser_state_save", "browser_state_load", "browser_close"}

\* Turns of up to MaxToolCalls calls, of an advertised action and of names
\* the catalog does not have: one without a method on the wrapper, and two
\* that name methods of the wrapper, cleanup() and scroll_into_view(ref).
UnadvertisedCalls ==
  {<<"browser_open", TextA>>, <<"browser_bogus", TextA>>, <<"browser_cleanup", TextA>>,
   <<"browser_scroll_into_view", TextA>>}
UnadvertisedProfile ==
  [first_responses |-> {ToolTurn(w) : w \in SeqsUpTo(UnadvertisedCalls, MaxToolCalls)},
   later_responses |-> {<<>>, ToolTurn(<< <<"browser_open", <<>> >> >>)},
   failures |-> {"timeout"}, backend |-> BackendResults,
   pricing_outcomes |-> {"fallback"}, max_start_history |-> FreshHistory]

NextUnadvertised == NextP(UnadvertisedProfile)
SpecUnadvertised == Init /\ [][NextUnadvertised]_vars

\* ----------------------------------- Model Gateway: stream_chat_completion

controller == <<pc, messages, api_messages, recent_actions, total_prompt_tokens,
                total_completion_tokens, query_prompt_tokens, query_completion_tokens,
                cached_pricing, client_cached_pricing, iteration, accumulated_tool_calls,
                tool_call_args_buffers, assistant_tool_calls,
                assistant_accumulated_content, exec_i, response, chunks_seen, gw_error,
                emitted, last_event, turn_events, usage_event, model_calls,
                received_usage, browser>>

\* httpx.TimeoutException and its subclasses; httpx.HTTPError and its
\* subclasses, the timeouts among them.
HttpxTimeouts == {"ConnectTimeout", "ReadTimeout"}
HttpxErrors == HttpxTimeouts \cup {"ConnectError", "ReadError"}
\* What opening the request can raise, and what reading from the response can.
ConnectFailures == {"ConnectTimeout", "ConnectError"}
ReadFailures == {"ReadTimeout", "ReadError"}

\* The except clauses tried in the other order.
Classify_HTTPFirst(exc) ==
  IF exc.type \in HttpxErrors THEN OpenRouterError("HTTP error", 0)
  ELSE IF exc.type \in HttpxTimeouts THEN OpenRouterError("Request timed out", 0)
  ELSE exc

\* The except clauses of the try block, for an exception raised inside it:
\* TimeoutException first, then HTTPError; anything else propagates as it is.
Classify(exc) ==
  IF exc.type \in HttpxTimeouts THEN OpenRouterError("Request timed out", 0)
  ELSE IF exc.type \in HttpxErrors THEN OpenRouterError("HTTP error", 0)
  ELSE exc

DataPrefix == <<"d", "a", "t", "a", ":", " ">>
DoneText == <<"[", "D", "O", "N", "E", "]">>
\* line.startswith("data: ") and line[6:]
HasPrefix(line) ==
  Len(line) >= Len(DataPrefix) /\ SubSeq(line, 1, Len(DataPrefix)) = DataPrefix
DataOf(line) == SubSeq(line, Len(DataPrefix) + 1, Len(line))

\* _parse_sse_chunk: json.loads, or None (JFail here) when it does not decode.
ParseSseChunk(data) == JsonLoads(data)

\* A line handler that ends the stream at a fragment that does not decode.
LineOutcome_AbortOnMalformed(line) ==
  IF ~HasPrefix(line) THEN "skip"
  ELSE IF DataOf(line) = DoneText THEN "done"
  ELSE IF ParseSseChunk(DataOf(line)) = JFail THEN "done"
  ELSE IF Truthy(ParseSseChunk(DataOf(line))) THEN "yield"
  ELSE "skip"

\* The body of the loop over the lines: break at the terminator, yield the
\* chunk `if chunk`, go on to the next line otherwise.
LineOutcome(line) ==
  IF ~HasPrefix(line) THEN "skip"
  ELSE IF DataOf(line) = DoneText THEN "done"
  ELSE IF Truthy(ParseSseChunk(DataOf(line))) THEN "yield"
  ELSE "skip"

\* The lines a response is made of: two fragments, the empty object, a
\* fragment cut short, the terminator; the terminator and a fragment without
\* the prefix "data: ", and the empty line between events.
Lines ==
  {DataPrefix \o TextA, DataPrefix \o TextAB, DataPrefix \o TextEmpty,
   DataPrefix \o TextCut, DataPrefix \o DoneText, DoneText,
   <<"d", "a", "t", "a", ":">> \o TextA, <<>>}
Statuses == {200, 204, 401}
\* How reading the body of an error response ends: it is read and decodes, it
\* is read and is not UTF-8, or the read fails.
ErrorBodies == {"text", "undecodable"} \cup ReadFailures

\* The caller starts iterating: the request is sent.
GwCall ==
  /\ gw.pc = "idle"
  /\ gw' = [GwIdle EXCEPT !.pc = "open"]
  /\ UNCHANGED <<controller, invoked>>

\* client.stream(...) raises before there is a response.
GwConnectRaise ==
  /\ gw.pc = "open"
  /\ \E exc \in ConnectFailures :
       gw' = [gw EXCEPT !.pc = "raised", !.cause = exc, !.error = Classify(Raised(exc))]
  /\ UNCHANGED <<controller, invoked>>

\* The response arrives: its status, and the lines its body will deliver.
GwResponse ==
  /\ gw.pc = "open"
  /\ \E status \in Statuses, lines \in SeqsUpTo(Lines, MaxLines) :
       gw' = [gw EXCEPT !.pc = IF status # 200 THEN "status" ELSE "lines",
                        !.status = status, !.lines = lines]
  /\ UNCHANGED <<controller, invoked>>

\* status_code != 200: the body is read and decoded for the error message.
GwErrorBody ==
  /\ gw.pc = "status"
  /\ \E body \in ErrorBodies :
       LET exc == IF body = "text"
                  THEN OpenRouterError("OpenRouter API error", gw.status)
                  ELSE IF body = "undecodable" THEN Raised("UnicodeDecodeError")
                  ELSE Raised(body)
       IN gw' = [gw EXCEPT !.pc = "raised", !.cause = exc.type, !.error = Classify(exc)]
  /\ UNCHANGED <<controller, invoked>>

\* The next line of the response.
GwLine ==
  /\ gw.pc = "lines"
  /\ gw.pos < Len(gw.lines)
  /\ LET line == gw.lines[gw.pos + 1]
         outcome == LineOutcome(line)
     IN gw' = [gw EXCEPT !.pos = @ + 1,
                         !.pc = IF outcome = "done" THEN "done" ELSE "lines",
                         !.yielded = IF outcome = "yield"
                                     THEN Append(@, ParseSseChunk(DataOf(line)))
                                     ELSE @]
  /\ UNCHANGED <<controller, invoked>>

\* Reading the next line fails.
GwStreamRaise ==
  /\ gw.pc = "lines"
  /\ \E exc \in ReadFailures :
       gw' = [gw EXCEPT !.pc = "raised", !.cause = exc, !.error = Classify(Raised(exc))]
  /\ UNCHANGED <<controller, invoked>>

\* The response ends without a terminator.
GwStreamEnd ==
  /\ gw.pc = "lines"
  /\ gw.pos = Len(gw.lines)
  /\ gw' = [gw EXCEPT !.pc = "done"]
  /\ UNCHANGED <<controller, invoked>>

\* The generator is finished, by return or by exception; the next call is a
\* new one.
GwClose ==
  /\ gw.pc \in {"done", "raised"}
  /\ gw' = GwIdle
  /\ UNCHANGED <<controller, invoked>>

NextGateway ==
  \/ GwCall \/ GwConnectRaise \/ GwResponse \/ GwErrorBody
  \/ GwLine \/ GwStreamRaise \/ GwStreamEnd \/ GwClose
SpecGateway == Init /\ [][NextGateway]_vars

\* --------------------------------------------------- calls of one function

\* The function has returned or raised; the next call is a new one.
CallClose ==
  /\ invoked.pc \in {"returned", "raised"}
  /\ invoked' = NoCall
  /\ UNCHANGED <<controller, gw>>

\* The outputs handed to truncate_output: "abab..." and "aaaa...", of every
\* length up to MaxOutput.
Outputs ==
  UNION {{[i \in 1..n |-> IF i % 2 = 1 THEN "a" ELSE "b"], [i \in 1..n |-> "a"]} :
           n \in 0..MaxOutput}

TruncateCall ==
  /\ invoked.fn = "none"
  /\ \E output \in Outputs, max_size \in 0..MaxOutput :
       invoked' = [fn |-> "truncate_output", pc |-> "called", output |-> output,
                max_size |-> max_size, result |-> <<>>]
  /\ UNCHANGED <<controller, gw>>

TruncateReturn ==
  /\ invoked.fn = "truncate_output" /\ invoked.pc = "called"
  /\ invoked' = [invoked EXCEPT !.pc = "returned",
                          !.result = truncate_output(invoked.output, invoked.max_size)]
  /\ UNCHANGED <<controller, gw>>

\* The commands followed: open and fill with text arguments, and with the
\* number 11 where the text is expected.
Commands ==
  {open(JStr(<<"u">>)), open(JNum(11)),
   fill(JStr(<<"e", "1">>), JStr(<<"t">>)), fill(JNum(1), JNum(11))}
\* What the command writes to stdout: nothing, text, a JSON object with or
\* without "output" and "ok" among its keys, a JSON number; and to stderr.
Stdouts ==
  {<<>>, <<"t", "\n">>, TextA, TextNum,
   <<"{", Quote, "o", "u", "t", "p", "u", "t", Quote, ":", Quote, "t", Quote, "}">>,
   <<"{", Quote, "o", "u", "t", "p", "u", "t", Quote, ":", "1", "}">>,
   <<"{", Quote, "o", "k", Quote, ":", "0", "}">>,
   <<"{", Quote, "o", "k", Quote, ":", Quote, "n", "o", Quote, ",", Quote, "o", "u", "t", "p", "u", "t", Quote, ":", Quote, "t", Quote, "}">>}
Stderrs == {<<>>, <<"e">>}
\* How starting the process can fail.
StartFailures == {"FileNotFoundError", "PermissionError"}

\* A method of the wrapper calls _run_command(cmd).
RunCommandCall ==
  /\ invoked.fn = "none"
  /\ \E cmd \in Commands, logger \in BOOLEAN :
       invoked' = [fn |-> "_run_command", pc |-> "log", cmd |-> cmd, logger |-> logger,
                   outcome |-> "none", returncode |-> 0, stdout |-> <<>>,
                   stderr |-> <<>>, raised |-> "none", process |-> "none",
                   result |-> NoResult]
  /\ UNCHANGED <<controller, gw>>

\* if self.logger: log " ".join(cmd), before the try block.
RunCommandLog ==
  /\ invoked.fn = "_run_command" /\ invoked.pc = "log"
  /\ invoked' = IF invoked.logger /\ ~AllStr(invoked.cmd)
                THEN [invoked EXCEPT !.pc = "raised", !.raised = "TypeError"]
                ELSE [invoked EXCEPT !.pc = "exec"]
  /\ UNCHANGED <<controller, gw>>

\* create_subprocess_exec(*cmd): the process starts, or the call raises.
RunCommandExec ==
  /\ invoked.fn = "_run_command" /\ invoked.pc = "exec"
  /\ \/ /\ ~AllStr(invoked.cmd)
        /\ invoked' = [invoked EXCEPT !.pc = "returned", !.outcome = "TypeError",
                                      !.result = Failure(FailedText)]
     \/ /\ AllStr(invoked.cmd)
        /\ invoked' = [invoked EXCEPT !.pc = "wait", !.outcome = "started",
                                      !.process = "running"]
     \/ /\ AllStr(invoked.cmd)
        /\ \E exc \in StartFailures :
             invoked' = [invoked EXCEPT !.pc = "returned", !.outcome = exc,
                           !.result = Failure(IF exc = "FileNotFoundError"
                                              THEN NotFoundText ELSE FailedText)]
  /\ UNCHANGED <<controller, gw>>

\* wait_for(process.communicate(), timeout) raises TimeoutError: communicate()
\* is cancelled, and the handler returns the failure result; nothing signals
\* the process, which goes on running.
RunCommandTimeout ==
  /\ invoked.fn = "_run_command" /\ invoked.pc = "wait"
  /\ invoked' = [invoked EXCEPT !.pc = "returned", !.outcome = "TimeoutError",
                                !.result = Failure(TimedOutText)]
  /\ UNCHANGED <<controller, gw>>

\* The process ends: its exit code and what it wrote.
RunCommandCompleted ==
  /\ invoked.fn = "_run_command" /\ invoked.pc = "wait"
  /\ \E returncode \in {0, 1}, stdout \in Stdouts, stderr \in Stderrs :
       invoked' = [invoked EXCEPT !.pc = "returned", !.outcome = "exited",
                                  !.process = "exited",
                                  !.returncode = returncode,
                                  !.stdout = stdout, !.stderr = stderr,
                                  !.result = Completed(returncode, stdout, stderr)]
  /\ UNCHANGED <<controller, gw>>

\* The task awaiting _run_command is cancelled while the process runs:
\* CancelledError is raised at the await and passes every handler, which catch
\* Exception; nothing signals the process.
RunCommandCancel ==
  /\ invoked.fn = "_run_command" /\ invoked.pc = "wait"
  /\ invoked' = [invoked EXCEPT !.pc = "raised", !.outcome = "CancelledError",
                                !.raised = "CancelledError"]
  /\ UNCHANGED <<controller, gw>>

NextExecutor ==
  \/ RunCommandCall \/ RunCommandLog \/ RunCommandExec \/ RunCommandTimeout
  \/ RunCommandCompleted \/ RunCommandCancel \/ CallClose
SpecExecutor == Init /\ [][NextExecutor]_vars

\* The catalog request's outcomes: the request raises; a status other than
\* 200; a 200 whose body is not JSON, is a JSON list, is an object without
\* "data", or lists up to MaxModels models.
CatalogEntries ==
  {Entry(DEFAULT_MODEL, <<"0", ".", "0", "0", "0", "0", "1", "5">>, <<"0", ".", "0", "0", "0", "0", "7", "5">>),
   Entry(DEFAULT_MODEL, <<"a", "b", "c">>, <<"0", ".", "0", "0", "0", "0", "7", "5">>),
   Entry("openai/gpt-4o", <<"0", ".", "0", "0", "0", "0", "0", "3">>, <<"0", ".", "0", "0", "0", "0", "1", "5">>),
   Entry("vendor/new-model", <<"0", ".", "0", "0", "0", "0", "0", "3">>, <<"0", ".", "0", "0", "0", "0", "1", "5">>),
   EntryNoPricing(DEFAULT_MODEL)}
Catalog(request, status, body, models) ==
  [request |-> request, status |-> status, body |-> body, models |-> models]
Catalogs ==
  {Catalog(r, 0, "none", <<>>) : r \in {"ConnectError", "ReadTimeout"}}
  \cup {Catalog("ok", st, "not_json", <<>>) : st \in {200, 404, 500}}
  \cup {Catalog("ok", 200, b, <<>>) : b \in {"list", "no_data"}}
  \cup {Catalog("ok", st, "models", ms) : st \in {200, 500}, ms \in SeqsUpTo(CatalogEntries, MaxModels)}
ModelNames == {DEFAULT_MODEL, "openai/gpt-4o", "vendor/new-model"}

\* Every variable but the client's cache and the call followed.
beside_client == <<pc, messages, api_messages, recent_actions, total_prompt_tokens,
                   total_completion_tokens, query_prompt_tokens, query_completion_tokens,
                   cached_pricing, iteration, accumulated_tool_calls,
                   tool_call_args_buffers, assistant_tool_calls,
                   assistant_accumulated_content, exec_i, response, chunks_seen, gw_error,
                   emitted, last_event, turn_events, usage_event, model_calls,
                   received_usage, browser, gw>>

PricingCall ==
  /\ invoked.fn = "none"
  /\ \E model_name \in ModelNames, catalog \in Catalogs :
       invoked' = [fn |-> "get_model_pricing", pc |-> "called", model_name |-> model_name,
                   catalog |-> catalog, cache_before |-> client_cached_pricing,
                   result |-> NoPricing, raised |-> "none", queried |-> FALSE]
  /\ UNCHANGED <<beside_client, client_cached_pricing>>

PricingReturn ==
  /\ invoked.fn = "get_model_pricing" /\ invoked.pc = "called"
  /\ LET got == get_model_pricing(invoked.model_name, client_cached_pricing, invoked.catalog)
     IN /\ invoked' = [invoked EXCEPT !.pc = IF got.raised = "none" THEN "returned"
                                             ELSE "raised",
                                      !.result = got.result, !.raised = got.raised,
                                      !.queried = got.queried]
        /\ client_cached_pricing' = got.cache
  /\ UNCHANGED beside_client

NextPricing == PricingCall \/ PricingReturn \/ CallClose
SpecPricing == Init /\ [][NextPricing]_vars

\* The for loop of the sliding window (controller.py:582-596) over a history
\* above the high-water mark: the list before the oldest messages are popped.
SummarizeOld(msgs) ==
  IF Len(msgs) > MAX_HISTORY_MESSAGES
  THEN [i \in DOMAIN msgs |->
          IF i <= Len(msgs) - MAX_SUMMARIZED_HISTORY THEN SummarizeMessage(msgs[i])
          ELSE msgs[i]]
  ELSE msgs

\* Histories as the claim on summaries takes them: user message, assistant
\* message with a tool call, tool-result message as _execute_tool_call formats
\* it, and so on. The third and the sixth message answer a call of any of the
\* names with any of the backend's results; "producers" keeps the name of the
\* call behind each tool-result.
CompactNames == {"browser_click", "browser_open", "browser_snapshot"}
CompactCallOf(name) == [name |-> name, args |-> JsonLoads(TextA), call_id |-> "c1"]
CompactHistory(len, n3, r3, n6, r6) ==
  [msgs |->
     [i \in 1..len |->
        IF i % 3 = 1 THEN format_message("user", TextContent(UserTask))
        ELSE IF i % 3 = 2
        THEN AssistantMessage(<<>>, <<[id |-> "c1", name |-> "browser_click",
                                       arguments |-> TextA]>>)
        ELSE IF i = 3 THEN ToolMessage(CompactCallOf(n3), r3)
        ELSE IF i = 6 THEN ToolMessage(CompactCallOf(n6), r6)
        ELSE ToolMessage(CompactCallOf("browser_click"), Result(TRUE, "raw"))],
   producers |->
     [i \in 1..len |->
        IF i % 3 # 0 THEN "" ELSE IF i = 3 THEN n3 ELSE IF i = 6 THEN n6
        ELSE "browser_click"]]
CompactHistories ==
  {CompactHistory(len, n3, r3, n6, r6) :
     len \in (MAX_HISTORY_MESSAGES - 1)..(MAX_HISTORY_MESSAGES + 2),
     n3 \in CompactNames, r3 \in BackendResults,
     n6 \in CompactNames, r6 \in BackendResults}

\* The sliding-window block of _execute_tool_call on one history: what the
\* for loop leaves, and what is left after the pops.
CompactCall ==
  /\ invoked.fn = "none"
  /\ \E h \in CompactHistories :
       invoked' = [fn |-> "sliding_window", pc |-> "called", history |-> h.msgs,
                   producers |-> h.producers, summarized |-> <<>>, result |-> <<>>]
  /\ UNCHANGED <<controller, gw>>

CompactReturn ==
  /\ invoked.fn = "sliding_window" /\ invoked.pc = "called"
  /\ invoked' = [invoked EXCEPT !.pc = "returned",
                                !.summarized = SummarizeOld(invoked.history),
                                !.result = SlidingWindow(invoked.history)]
  /\ UNCHANGED <<controller, gw>>

NextCompact == CompactCall \/ CompactReturn \/ CallClose
SpecCompact == Init /\ [][NextCompact]_vars

NextTruncate == TruncateCall \/ TruncateReturn \/ CallClose
SpecTruncate == Init /\ [][NextTruncate]_vars


\* ----------------------------------------------------------------- claims

\* The position of the last assistant message of the history (0: none).
LastAssistant ==
  LET at == {i \in DOMAIN messages : messages[i].role = "assistant"}
  IN IF at = {} THEN 0 ELSE CHOOSE i \in at : \A j \in at : j <= i

\* A turn of the task in flight (or of the last task) is complete: its stream
\* ended normally and its tool calls, if any, have all been processed.
TurnCompleted ==
  /\ gw_error = "none"
  /\ \/ pc = "loop" /\ iteration > 0
     \/ pc \in {"finish", "idle"} /\ emitted["message_end"] > 0

\* C1: after any number of completed turns, every tool-result message of the
\* history (self.messages) immediately follows the assistant message whose
\* tool call it answers, or another tool result of that message, and every
\* executed tool call of the turn has exactly one tool-result message there.
C1_PairingInHistory ==
  /\ \A i \in DOMAIN messages :
       messages[i].role = "tool" =>
         /\ i > 1
         /\ messages[i - 1].role \in {"assistant", "tool"}
         /\ \E j \in 1..(i - 1) :
              /\ messages[j].role = "assistant"
              /\ \A k \in (j + 1)..i : messages[k].role = "tool"
              /\ \E c \in DOMAIN messages[j].tool_calls :
                   messages[j].tool_calls[c].id = messages[i].tool_call_id
  /\ TurnCompleted =>
       \A k \in DOMAIN turn_events :
         turn_events[k].event = "tool_call" =>
           Cardinality({i \in DOMAIN messages :
                          /\ i > LastAssistant
                          /\ messages[i].role = "tool"
                          /\ messages[i].tool_call_id = turn_events[k].call_id}) = 1

\* The turn's stream has ended normally: the tool calls it assembled are being
\* processed, or have been.
StreamEnded == pc \in {"exec", "tool"} /\ gw_error = "none"

\* C2: in a turn whose stream ended normally, a tool call whose concatenated
\* argument text decodes as JSON (the empty object {} included) is
\* dispatched; the error event is yielded, and the call skipped, only for a
\* call whose arguments did not decode.
C2_DecodableIsDispatched ==
  StreamEnded =>
    \A k \in DOMAIN turn_events :
      JsonLoads(tool_call_args_buffers[k]) # JFail => turn_events[k].event = "tool_call"

\* C3: a tool call is dispatched only if the concatenation of all its
\* argument fragments decodes as JSON, and the arguments it is dispatched with
\* are the decode of that concatenation, never an earlier partial decode.
C3_DispatchedIsFinalDecode ==
  StreamEnded =>
    \A k \in DOMAIN turn_events :
      turn_events[k].event = "tool_call" =>
        /\ JsonLoads(tool_call_args_buffers[k]) # JFail
        /\ turn_events[k].args = JsonLoads(tool_call_args_buffers[k])

RECURSIVE ConcatArguments(_)
\* The argument pieces of a response's fragments, concatenated in order.
ConcatArguments(r) ==
  IF r = <<>> THEN <<>> ELSE r[1].arguments \o ConcatArguments(Tail(r))

\* C4: when the argument text of a tool call is valid JSON, however it was cut
\* into fragments, the assembled call's arguments are the decode of the whole
\* text and the assistant message carries the whole text as its arguments
\* string: what one fragment would have given.
C4_SplitIndependent ==
  (StreamEnded /\ Len(accumulated_tool_calls) = 1
     /\ JsonLoads(ConcatArguments(response)) # JFail) =>
    /\ accumulated_tool_calls[1].args = JsonLoads(ConcatArguments(response))
    /\ assistant_tool_calls[1].arguments = ConcatArguments(response)
    /\ messages[Len(messages)].tool_calls[1].arguments = ConcatArguments(response)

\* C4 happens: {"a":1} arrived in three non-empty fragments, none of which
\* decodes alone, and the stream has ended.
C4_Witness ==
  /\ StreamEnded /\ Len(accumulated_tool_calls) = 1 /\ Len(response) = 3
  /\ ConcatArguments(response) = TextA
  /\ \A k \in 1..3 : response[k].arguments # <<>> /\ JsonLoads(response[k].arguments) = JFail
  /\ accumulated_tool_calls[1].args = JObj({<<(<<"a">>), JNum(1)>>})

\* The occurrences of the last pushed signature in the ring.
LastSigCount ==
  Cardinality({i \in DOMAIN recent_actions :
                 recent_actions[i] = recent_actions[Len(recent_actions)]})

\* C5: when the signature of an executed tool call has been pushed onto the
\* ring, loop_detected is yielded for the call if and only if the signature
\* then occurs at least 5 times in the ring, and then exactly once; the
\* signature is the name and the key-sorted dump of the arguments.
C5_LoopDetectedIffFive ==
  /\ pc = "tool" =>
       LET call == accumulated_tool_calls[exec_i]
           ev == turn_events[Len(turn_events)]
       IN /\ recent_actions # <<>>
          /\ recent_actions[Len(recent_actions)]
               = <<call.name, ":">> \o JsonDumps(call.args)
          /\ ev.loops = (IF LastSigCount >= 5 THEN 1 ELSE 0)
  /\ iteration = 1 =>
       emitted["loop_detected"]
         = Cardinality({k \in DOMAIN turn_events : turn_events[k].loops = 1})

\* C5 happens: the eleventh call of a turn has the arguments of the first,
\* whose entry the ring has evicted; its signature occurs exactly 5 times in the
\* full ring, under both spellings of the arguments, and loop_detected has
\* been yielded for it.
C5_Witness ==
  /\ pc = "tool" /\ exec_i = RING_SIZE + 1 /\ Len(recent_actions) = RING_SIZE
  /\ LastSigCount = 5
  /\ accumulated_tool_calls[exec_i].args.m = {<<(<<"a">>), JNum(1)>>, <<(<<"b">>), JNum(1)>>}
  /\ accumulated_tool_calls[1].args = accumulated_tool_calls[exec_i].args
  /\ assistant_tool_calls[exec_i].arguments # assistant_tool_calls[exec_i - 1].arguments
  /\ accumulated_tool_calls[exec_i - 1].args = accumulated_tool_calls[exec_i].args
  /\ turn_events[Len(turn_events)].loops = 1

\* C6: a task calls the Gateway at most max_iterations times; when
\* max_iterations turns have each ended with tool calls, the task ends with a
\* warning event and the usage summary, and with no further call.
C6_IterationCap ==
  /\ model_calls <= max_iterations
  /\ pc # "idle" => model_calls = iteration
  /\ (pc = "idle" /\ model_calls = max_iterations /\ gw_error = "none"
        /\ turn_events # <<>>)
       => emitted["warning"] = 1 /\ emitted["usage"] = 1 /\ last_event = "usage"

\* C6 happens: a task whose every permitted turn called tools has ended.
C6_Witness ==
  /\ pc = "idle" /\ model_calls = max_iterations /\ gw_error = "none"
  /\ turn_events # <<>> /\ emitted["warning"] = 1 /\ emitted["message_end"] = max_iterations

\* C7: after a turn whose stream ended normally the loop calls the model
\* again exactly when the turn's assistant message has a tool call (and the
\* cap is not reached); a turn without tool calls ends the task, and no tool
\* is executed for it.
C7_ContinueIffToolCalls ==
  /\ pc \in {"exec", "tool"} => assistant_tool_calls # <<>>
  /\ (pc = "loop" /\ iteration > 0) => assistant_tool_calls # <<>>
  /\ (pc = "finish" /\ gw_error = "none") =>
       \/ assistant_tool_calls = <<>> /\ turn_events = <<>>
       \/ assistant_tool_calls # <<>> /\ iteration >= max_iterations

\* C7 happens: a turn with tool calls was followed by another model call, whose
\* turn had none and ended the task.
C7_Witness ==
  /\ pc = "finish" /\ gw_error = "none" /\ assistant_tool_calls = <<>>
  /\ model_calls >= 2 /\ emitted["tool_call"] >= 1

\* The steps of a task in flight.
TaskStep ==
  \/ LoopExit \/ IterStart(FlowProfile) \/ StreamRaise(FlowProfile) \/ StreamEnd
  \/ ExecDone \/ ExecSkip \/ ExecDispatch \/ ToolReturn(FlowProfile)
  \/ Finish(FlowProfile) \/ StreamChunk

\* A task in flight takes its next step: the generator is driven to its end.
FairSpec == Spec /\ WF_vars(TaskStep)

\* C8: a task always ends, and it ends by yielding exactly one usage event,
\* its last event, whether it ended by a turn without tool calls, by the
\* iteration cap or by a Gateway error.
C8_UsageLast ==
  [](pc # "idle" =>
       /\ emitted["usage"] = 0
       /\ <>(pc = "idle" /\ emitted["usage"] = 1 /\ last_event = "usage"))

\* C8 happens: a task that a Gateway error ended has yielded its usage event.
C8_Witness ==
  pc = "idle" /\ gw_error \in GatewayFailures /\ emitted["usage"] = 1 /\ last_event = "usage"

\* C9 as stated: after a non-2xx Gateway failure the task has yielded exactly
\* one error event and no usage summary.
C9_NoUsageAfterStatusError ==
  (gw_error = "status" /\ pc = "idle") => emitted["error"] = 1 /\ emitted["usage"] = 0

Counters == <<total_prompt_tokens, total_completion_tokens, query_prompt_tokens,
              query_completion_tokens>>

\* C9 amended: a non-2xx failure (before any fragment) yields exactly one
\* error event for that call, no further model call is made and no tool is
\* executed, the token counters keep the values they had before the call, and
\* the task then ends with the usage summary, which reports those values.
C9_StatusErrorThenUsage ==
  [][/\ (pc = "loop" /\ pc' = "stream") => Counters' = Counters
     /\ (gw_error # "status" /\ gw_error' = "status") =>
          /\ pc = "stream" /\ chunks_seen = 0 /\ pc' = "finish"
          /\ emitted'["error"] = emitted["error"] + 1
          /\ emitted'["tool_call"] = emitted["tool_call"]
          /\ model_calls' = model_calls
          /\ Counters' = Counters
     /\ (gw_error = "status" /\ pc = "finish") =>
          /\ pc' = "idle"
          /\ emitted' = [emitted EXCEPT !["usage"] = 1,
                                        !["warning"] = IF iteration >= max_iterations
                                                       THEN 1 ELSE 0]
          /\ model_calls' = model_calls
          /\ Counters' = Counters
          /\ usage_event'.prompt_tokens = total_prompt_tokens
          /\ usage_event'.completion_tokens = total_completion_tokens
          /\ usage_event'.query_prompt_tokens = query_prompt_tokens
          /\ usage_event'.query_completion_tokens = query_completion_tokens]_vars

\* C9 happens: a task failed with a non-2xx status on a controller that had
\* counted tokens before, and has ended.
C9_Witness ==
  /\ gw_error = "status" /\ pc = "idle" /\ emitted["usage"] = 1 /\ emitted["error"] = 1
  /\ total_prompt_tokens > 0 /\ usage_event.prompt_tokens = total_prompt_tokens

\* C10: from a Gateway call that fails (non-2xx, timeout or connection error)
\* to the end of its task the history is not changed: every message that was
\* there before the call is still there, unmodified and in the same order.
C10_HistoryKeptOnFailure ==
  [][/\ (pc = "loop" /\ pc' = "stream") => messages' = messages
     /\ (pc = "stream" /\ pc' = "stream") => messages' = messages
     /\ (gw_error = "none" /\ gw_error' \in GatewayFailures) => messages' = messages
     /\ (gw_error \in GatewayFailures /\ pc = "finish") => messages' = messages]_vars

\* C10 happens: a call failed in mid-stream, in a task with earlier turns.
C10_Witness ==
  /\ pc = "finish" /\ gw_error \in {"timeout", "http"} /\ chunks_seen >= 1
  /\ iteration >= 2 /\ Len(messages) >= 2


\* The tool-result messages at the end of api_messages that say ok = false.
FailedAt(i) ==
  /\ i \in DOMAIN api_messages
  /\ api_messages[i].role = "tool"
  /\ ~api_messages[i].content.ok

\* C11: whether the wrapper reports a failure, the tool name has no method or
\* the method call raises, tool execution returns: a result with ok = false
\* and the error text becomes the call's tool-result message in api_messages,
\* no error event is yielded and the Gateway is not failed, and the loop goes
\* on to the turn's next tool call and then to the next model call.
C11_ToolFailureIsAResult ==
  /\ [](pc = "tool" => ENABLED ToolReturn(ToolsProfile))
  /\ [][/\ pc = "tool" =>
            LET call == accumulated_tool_calls[exec_i]
                m == api_messages'[Len(api_messages')]
                unknown == MethodOf(call.name) \notin BrowserMethods
                rejected == ~unknown /\ call.args.t # "obj"
            IN /\ pc' = "exec" /\ exec_i' = exec_i + 1
               /\ api_messages' = Append(api_messages, m)
               /\ m.role = "tool" /\ m.tool_call_id = call.call_id
               /\ m.content.output \in {"Unknown tool", "Tool error", "raw"}
               /\ unknown => ~m.content.ok /\ m.content.output = "Unknown tool"
               /\ rejected => ~m.content.ok /\ m.content.output = "Tool error"
               /\ emitted' = emitted /\ gw_error' = gw_error
        /\ (pc = "exec" /\ exec_i > Len(accumulated_tool_calls)) => pc' = "loop"
        /\ (pc = "loop" /\ iteration > 0 /\ iteration < max_iterations) => pc' = "stream"]_vars

\* C11 happens: an unknown tool and a rejected call of one turn both got their
\* failure results, in order, and the next model call has been made.
C11_Witness ==
  /\ pc = "stream" /\ iteration = 2 /\ gw_error = "none" /\ emitted["error"] = 0
  /\ \E i \in DOMAIN api_messages :
       /\ FailedAt(i) /\ api_messages[i].content.output = "Unknown tool"
       /\ FailedAt(i + 1) /\ api_messages[i + 1].content.output = "Tool error"

\* The turn's tool_call events so far, and how many of the calls have returned.
DispatchedEvents == SelectSeq(turn_events, LAMBDA e : e.event = "tool_call")
ReturnedCalls == IF pc = "tool" THEN Len(DispatchedEvents) - 1 ELSE Len(DispatchedEvents)

\* C16: the tool calls of a turn are processed one at a time in the order the
\* stream opened them; when one is being executed, api_messages ends with the
\* turn's assistant message followed by the tool-result messages of exactly
\* the calls dispatched before it, in order.
C16_OneAtATimeInOrder ==
  pc \in {"exec", "tool"} =>
    LET p == Len(api_messages) - ReturnedCalls
    IN /\ Len(turn_events) = (IF pc = "tool" THEN exec_i ELSE exec_i - 1)
       /\ \A k \in DOMAIN turn_events :
            /\ turn_events[k].call_id = accumulated_tool_calls[k].call_id
            /\ turn_events[k].call_id = assistant_tool_calls[k].id
            /\ turn_events[k].call_id = CallIds[k]
       /\ p >= 1
       /\ api_messages[p].role = "assistant"
       /\ api_messages[p].tool_calls = assistant_tool_calls
       /\ \A j \in 1..ReturnedCalls :
            /\ api_messages[p + j].role = "tool"
            /\ api_messages[p + j].tool_call_id = DispatchedEvents[j].call_id

\* C16 happens: the second call of a turn is being executed after the first
\* has returned.
C16_Witness ==
  /\ pc = "tool" /\ exec_i = 2 /\ ReturnedCalls = 1
  /\ api_messages[Len(api_messages)].role = "tool"
  /\ api_messages[Len(api_messages)].tool_call_id = "c1"


\* C12 as stated: at the usage event of a task the per-task prompt and
\* completion counts are the sums of the usage counters of the fragments
\* received during the task.
C12_TaskCountsAreReceived ==
  (pc = "idle" /\ last_event = "usage") =>
    /\ usage_event.query_prompt_tokens = received_usage.task_prompt
    /\ usage_event.query_completion_tokens = received_usage.task_completion

\* C13 as stated: the cumulative prompt and completion counts are the sums of
\* the usage counters of all fragments received since the controller was
\* created or last reset.
C13_TotalsAreReceived ==
  /\ total_prompt_tokens = received_usage.prompt
  /\ total_completion_tokens = received_usage.completion

C17_LoopEventIsAdvisory ==
  /\ [](pc = "tool" => ENABLED ToolReturn(LoopProfile))
  /\ [][/\ (/\ pc = "exec" /\ exec_i <= Len(accumulated_tool_calls)
            /\ ArgsComplete(accumulated_tool_calls[exec_i])) =>
              /\ pc' = "tool" /\ exec_i' = exec_i /\ api_messages' = api_messages
              /\ emitted'["tool_call"] = emitted["tool_call"] + 1
              /\ emitted'["error"] = emitted["error"]
              /\ emitted'["warning"] = emitted["warning"]
              /\ turn_events'[Len(turn_events')].event = "tool_call"
              /\ turn_events'[Len(turn_events')].call_id
                   = accumulated_tool_calls[exec_i].call_id
        /\ pc = "tool" =>
              /\ pc' = "exec" /\ exec_i' = exec_i + 1 /\ emitted' = emitted
              /\ Len(api_messages') = Len(api_messages) + 1
              /\ api_messages'[Len(api_messages')].role = "tool"
              /\ api_messages'[Len(api_messages')].tool_call_id
                   = accumulated_tool_calls[exec_i].call_id
        /\ (pc = "exec" /\ exec_i > Len(accumulated_tool_calls)) => pc' = "loop"
        /\ (pc = "loop" /\ iteration > 0 /\ iteration < max_iterations) =>
              pc' = "stream" /\ iteration' = iteration + 1]_vars

\* C17 happens: loop_detected was yielded for the fifth call of a turn of six
\* calls, all six have their tool-result messages, and the next model call
\* has been made.
C17_Witness ==
  /\ pc = "stream" /\ iteration = 2 /\ emitted["loop_detected"] = 1
  /\ emitted["tool_call"] = LOOP_THRESHOLD + 1
  /\ Len(api_messages) = 3 + LOOP_THRESHOLD + 1
  /\ api_messages[Len(api_messages)].role = "tool"


\* C18 as stated: a call whose response has a status other than 200 ends by
\* raising OpenRouterError with that status code in it, and yields no fragment.
C18_Non200RaisesWithStatus ==
  (gw.status # 0 /\ gw.status # 200) =>
    /\ gw.yielded = <<>> /\ gw.pos = 0
    /\ gw.pc \in {"status", "raised"}
    /\ gw.pc = "raised" =>
         gw.error.type = "OpenRouterError" /\ gw.error.status = gw.status

\* C19: a timeout raised by the transport, when the request is opened or
\* while the response is read, reaches the caller as OpenRouterError "Request
\* timed out"; any other transport error reaches it as OpenRouterError "HTTP
\* error"; the caller never sees the transport's own exception.
C19_TimeoutIsDistinct ==
  gw.pc = "raised" =>
    /\ gw.error.type \notin {"ConnectTimeout", "ReadTimeout", "ConnectError", "ReadError"}
    /\ gw.cause \in {"ConnectTimeout", "ReadTimeout"} =>
         gw.error = OpenRouterError("Request timed out", 0)
    /\ gw.cause \in {"ConnectError", "ReadError"} =>
         gw.error = OpenRouterError("HTTP error", 0)

\* C19 happens: reading a 200 response timed out after a fragment was yielded.
C19_Witness ==
  /\ gw.pc = "raised" /\ gw.cause = "ReadTimeout" /\ gw.status = 200
  /\ Len(gw.yielded) = 1 /\ gw.error.message = "Request timed out"

\* The lines before the first "data: [DONE]", and of these the ones with the
\* prefix, as the decodes of their data.
BeforeDone(ls) ==
  LET d == {i \in DOMAIN ls : ls[i] = DataPrefix \o DoneText}
  IN IF d = {} THEN ls ELSE SubSeq(ls, 1, (CHOOSE i \in d : \A j \in d : i <= j) - 1)
Decodes(ls) ==
  LET data == SelectSeq(BeforeDone(ls), HasPrefix)
  IN [k \in DOMAIN data |-> JsonLoads(DataOf(data[k]))]

\* C20 as stated: a 200 response yields exactly the decodes of the "data: "
\* lines before the first terminator that decode.
C20_YieldsEveryDecoded ==
  gw.pc = "done" => gw.yielded = SelectSeq(Decodes(gw.lines), LAMBDA v : v # JFail)

\* C20, amended: the fragments yielded are, in arrival order, the decodes of
\* the "data: " lines read before the first "data: [DONE]" that decode to a
\* value Python takes as true; the other lines are passed over without ending
\* the stream, and no line after the terminator is read.
C20_YieldsTruthyDecoded ==
  /\ gw.pc \in {"lines", "done", "raised"} =>
       gw.yielded = SelectSeq(Decodes(SubSeq(gw.lines, 1, gw.pos)), Truthy)
  /\ gw.pc = "done" =>
       /\ gw.yielded = SelectSeq(Decodes(gw.lines), Truthy)
       /\ gw.pos = Len(BeforeDone(gw.lines)) + (IF BeforeDone(gw.lines) = gw.lines THEN 0 ELSE 1)
  /\ gw.pc = "lines" => BeforeDone(SubSeq(gw.lines, 1, gw.pos)) = SubSeq(gw.lines, 1, gw.pos)

\* C20 happens: a fragment that does not decode came between two fragments
\* that do, the response ended there, and both fragments were yielded in order.
C20_Witness ==
  /\ gw.pc = "done" /\ gw.status = 200
  /\ gw.lines = <<DataPrefix \o TextA, DataPrefix \o TextCut, DataPrefix \o TextAB>>
  /\ gw.yielded = <<JsonLoads(TextA), JsonLoads(TextAB)>>


\* Whether the text part occurs in the text whole.
Contains(whole, part) ==
  \E i \in 0..(Len(whole) - Len(part)) : SubSeq(whole, i + 1, i + Len(part)) = part

\* C24: truncate_output(s, M) is s when len(s) <= M; when len(s) = L > M it is
\* the first M characters of s followed by a marker that depends on L only,
\* contains "truncated" and contains L in decimal.
C24_TruncateOutput ==
  (invoked.fn = "truncate_output" /\ invoked.pc = "returned") =>
    LET L == Len(invoked.output)
        M == invoked.max_size
        marker == SubSeq(invoked.result, M + 1, Len(invoked.result))
    IN /\ L <= M => invoked.result = invoked.output
       /\ L > M =>
            /\ SubSeq(invoked.result, 1, M) = SubSeq(invoked.output, 1, M)
            /\ marker = TruncationMarker(L)
            /\ Contains(marker, <<"t", "r", "u", "n", "c", "a", "t", "e", "d">>)
            /\ Contains(marker, NumToText(L))
            /\ Len(invoked.result) > M

\* C24 happens: an output of 11 characters was cut to its first 10, and one of
\* exactly max_size characters comes back whole.
C24_Witness ==
  /\ invoked.fn = "truncate_output" /\ invoked.pc = "returned"
  /\ Len(invoked.output) = MaxOutput /\ invoked.max_size = MaxOutput - 1
  /\ invoked.output[2] = "b"
  /\ Contains(invoked.result, <<"a", "b", "\n", "\n", "[">>)
  /\ Contains(invoked.result, <<":", " ", "1", "1", " ", "t">>)


\* C21 as stated: _run_command never raises and returns a result whose ok is
\* a boolean and that has an output, whatever the command did; ok is false
\* when the command exited non-zero, timed out or could not be started.
C21_AlwaysAResult ==
  (invoked.fn = "_run_command" /\ invoked.pc \in {"returned", "raised"}) =>
    /\ invoked.pc = "returned"
    /\ invoked.result.ok.t = "bool"
    /\ invoked.result.output # JFail
    /\ (\/ invoked.outcome \in {"TimeoutError", "FileNotFoundError", "PermissionError"}
        \/ (invoked.outcome = "exited" /\ invoked.returncode # 0)) =>
         invoked.result.ok = JBool(FALSE)


\* The catalog lists the model: some entry has its id.
Lists(catalog, model_name) ==
  \E i \in DOMAIN catalog.models : catalog.models[i].id = model_name

\* C22: get_model_pricing returns and does not raise; called with nothing
\* cached, when the catalog request fails, answers with a status other than
\* 200, has a body that cannot be parsed, or does not list the model, the
\* result is the static table's entry for the requested model, which is the
\* zero prices for a model the table does not have.
C22_PricingFallback ==
  (invoked.fn = "get_model_pricing" /\ invoked.pc # "called") =>
    /\ invoked.pc = "returned" /\ invoked.raised = "none"
    /\ (/\ ~invoked.cache_before.set
        /\ \/ invoked.catalog.request # "ok"
           \/ invoked.catalog.status # 200
           \/ invoked.catalog.body \in {"not_json", "list"}
           \/ ~Lists(invoked.catalog, invoked.model_name)) =>
         /\ invoked.result = StaticEntry(invoked.model_name)
         /\ invoked.model_name = "vendor/new-model" => invoked.result = Pricing(0, 0)
         /\ invoked.model_name = DEFAULT_MODEL => invoked.result = Pricing(15000000, 75000000)
         /\ client_cached_pricing = invoked.cache_before

\* C22 happens: the catalog answered 200 and lists another model only, and the
\* call returned the static prices of the default model.
C22_Witness ==
  /\ invoked.fn = "get_model_pricing" /\ invoked.pc = "returned"
  /\ invoked.model_name = DEFAULT_MODEL /\ ~invoked.cache_before.set
  /\ invoked.catalog.status = 200 /\ Len(invoked.catalog.models) = 1
  /\ invoked.catalog.models[1].id = "openai/gpt-4o"
  /\ invoked.result = Pricing(15000000, 75000000)


\* C23 as stated: the costs of a usage event are (prompt tokens x input price +
\* completion tokens x output price) / 1,000,000 for the model's prices per
\* million tokens, 15 and 75, which the static table holds as 15.00 and 75.00
\* and the catalog lists per token, as 0.000015 and 0.000075; so that 1,000,000
\* tokens of each kind cost 90.
C23_CostPerMillion ==
  (pc = "idle" /\ last_event = "usage") =>
    /\ usage_event.cost_num
         = CostNum(usage_event.prompt_tokens, usage_event.completion_tokens,
                   Pricing(15000000, 75000000))
    /\ usage_event.query_cost_num
         = CostNum(usage_event.query_prompt_tokens, usage_event.query_completion_tokens,
                   Pricing(15000000, 75000000))


\* The positions, in order, of the calls of the turn that were dispatched.
RECURSIVE DispatchedUpTo(_)
DispatchedUpTo(k) ==
  IF k = 0 THEN <<>>
  ELSE DispatchedUpTo(k - 1)
         \o (IF turn_events[k].event = "tool_call" THEN <<k>> ELSE <<>>)

\* C25: when the tool calls of a turn have all been handled, the list sent to
\* the model ends with the turn's assistant message followed by one tool-result
\* message per dispatched call, in dispatch order, and each tool-result's
\* tool_call_id is the id the assistant message's tool_calls list records for
\* that call.
C25_ResultsAnswerTheirCalls ==
  (pc = "exec" /\ exec_i > Len(accumulated_tool_calls)) =>
    LET disp == DispatchedUpTo(Len(turn_events))
        n == Len(disp)
        last == Len(api_messages)
    IN /\ last > n
       /\ api_messages[last - n].role = "assistant"
       /\ api_messages[last - n].tool_calls = assistant_tool_calls
       /\ \A j \in 1..n :
            /\ api_messages[last - n + j].role = "tool"
            /\ api_messages[last - n + j].tool_call_id
                 = api_messages[last - n].tool_calls[disp[j]].id

\* The fragments of the turn seen so far, those of them that opened a call,
\* and the argument text of those that carry the index i.
SeenChunks == SubSeq(response, 1, chunks_seen)
OpeningChunks(chunks) == SelectSeq(chunks, LAMBDA c : c.has_tool /\ c.name # "")
RECURSIVE ArgumentsAt(_, _)
ArgumentsAt(chunks, i) ==
  IF chunks = <<>> THEN <<>>
  ELSE (IF Head(chunks).has_tool /\ Head(chunks).index = i
        THEN Head(chunks).arguments ELSE <<>>)
         \o ArgumentsAt(Tail(chunks), i)

\* C26: while a turn is streamed, the buffer of each opened call holds the
\* argument text of exactly the fragments seen that carry the index of the
\* fragment that opened the call, and no fragment has aborted the turn.
C26_ArgumentsRoutedByIndex ==
  /\ gw_error # "internal"
  /\ pc = "stream" =>
       LET opening == OpeningChunks(SeenChunks)
       IN /\ Len(tool_call_args_buffers) = Len(opening)
          /\ \A k \in 1..Len(opening) :
               tool_call_args_buffers[k] = ArgumentsAt(SeenChunks, opening[k].index)


\* The text of the content events yielded for the fragments, in order.
RECURSIVE ContentEvents(_)
ContentEvents(chunks) ==
  IF chunks = <<>> THEN <<>> ELSE Head(chunks).content \o ContentEvents(Tail(chunks))

C28_ShapelessFragmentSkipped ==
  [][(/\ pc = "stream"
      /\ chunks_seen < Len(response)
      /\ response[chunks_seen + 1].choices_empty
      /\ chunks_seen' = chunks_seen + 1) =>
       LET c == response[chunks_seen + 1]
       IN /\ pc' = "stream"
          /\ emitted'["error"] = emitted["error"]
          /\ total_prompt_tokens'
               = total_prompt_tokens + (IF c.has_usage THEN c.prompt_tokens ELSE 0)
          /\ total_completion_tokens'
               = total_completion_tokens + (IF c.has_usage THEN c.completion_tokens ELSE 0)]_vars


\* C29: the conversation messages sent with a model call, the system prompt
\* not counted, are within the sliding window: at most MAX_HISTORY_MESSAGES
\* messages and the task's user message, whatever the number of the turn; and
\* so is the stored history when a task starts a turn.
C29_CallsWithinWindow ==
  pc = "stream" =>
    /\ Len(api_messages) - 1 <= MAX_HISTORY_MESSAGES + 1
    /\ Len(messages) <= MAX_HISTORY_MESSAGES + 1

\* C30: a tool-result step leaves a history of at most MAX_HISTORY_MESSAGES
\* messages as it is, and replaces a longer one by its last
\* MAX_SUMMARIZED_HISTORY messages, unchanged and in their order; every other
\* step leaves the history alone, appends one message to it, or empties it
\* (reset).
C30_CompactionKeepsMostRecent ==
  [][IF pc = "tool" /\ pc' = "exec"
     THEN IF Len(messages) > MAX_HISTORY_MESSAGES
          THEN messages' = SubSeq(messages, Len(messages) - MAX_SUMMARIZED_HISTORY + 1,
                                  Len(messages))
          ELSE messages' = messages
     ELSE \/ messages' = messages
          \/ Len(messages') = Len(messages) + 1
               /\ SubSeq(messages', 1, Len(messages)) = messages
          \/ pc' = "idle" /\ messages' = <<>>]_vars

\* A tool-result step has just cut the history down to MAX_SUMMARIZED_HISTORY
\* messages: four tool calls were dispatched since the last reset, each in a
\* task that added two messages or more before its call, so a history of six
\* messages right after a tool result has been compacted by that step; its
\* last two messages are the task's user message and the turn's assistant
\* message.
C30_Witness ==
  /\ pc = "exec" /\ exec_i = 2 /\ iteration = 1
  /\ Len(recent_actions) >= 4
  /\ Len(messages) = MAX_SUMMARIZED_HISTORY
  /\ messages[MAX_SUMMARIZED_HISTORY - 1].role = "user"
  /\ messages[MAX_SUMMARIZED_HISTORY].role = "assistant"
  /\ messages[MAX_SUMMARIZED_HISTORY].tool_calls # <<>>


C32_SummarizedWhateverTheOutcome ==
  [][(/\ pc = "tool" /\ pc' = "exec"
      /\ accumulated_tool_calls[exec_i].name \in {"browser_snapshot", "browser_screenshot"}) =>
       LET fed == api_messages'[Len(api_messages')]
       IN /\ fed.role = "tool"
          /\ fed.content.output
               = (IF accumulated_tool_calls[exec_i].name = "browser_snapshot"
                  THEN "[Snapshot summarized]" ELSE "[Screenshot captured]")]_vars


\* The ring holds two distinct signatures in strict alternation.
Alternates(ring) ==
  /\ Len(ring) >= 2
  /\ \A i \in 1..(Len(ring) - 1) : ring[i] # ring[i + 1]
  /\ \A i \in 1..(Len(ring) - 2) : ring[i] = ring[i + 2]

\* C33: the dispatch of a call that leaves the ring, filled from empty, in
\* strict alternation of two distinct actions yields no loop_detected event.
C33_AlternationNotFlagged ==
  [][(pc = "exec" /\ pc' = "tool" /\ Alternates(recent_actions')) =>
       emitted'["loop_detected"] = emitted["loop_detected"]]_vars


\* The last n entries of a sequence, or all of it when it has fewer.
LastOf(seq, n) == SubSeq(seq, IF Len(seq) > n THEN Len(seq) - n + 1 ELSE 1, Len(seq))

\* C34: the ring never holds more than RING_SIZE signatures; the dispatch of a
\* call makes it the last RING_SIZE entries of the old ring followed by the
\* call's signature, so that it is always the signatures of the last calls
\* executed, in order; a skipped call and every other step leave it as it is,
\* and reset empties it.
C34_RingOfLastCalls ==
  [][/\ Len(recent_actions') <= RING_SIZE
     /\ IF pc = "exec" /\ pc' = "tool"
        THEN recent_actions'
               = LastOf(Append(recent_actions, ActionSig(accumulated_tool_calls[exec_i])),
                        RING_SIZE)
        ELSE \/ recent_actions' = recent_actions
             \/ pc = "idle" /\ pc' = "idle" /\ recent_actions' = <<>>]_vars

\* Eleven calls of one turn have been executed, snapshot and click in turn: the
\* ring holds the signatures of the second to the eleventh, the first one
\* evicted.
C34_Witness ==
  /\ pc = "exec" /\ iteration = 1 /\ exec_i = RING_SIZE + 2
  /\ emitted["tool_call"] = RING_SIZE + 1
  /\ Len(recent_actions) = RING_SIZE
  /\ \A i \in 1..RING_SIZE :
       recent_actions[i] = ActionSig(accumulated_tool_calls[i + 1])
  /\ recent_actions[1] # ActionSig(accumulated_tool_calls[1])


\* C35: the end of a task yields the warning only when the loop test stopped
\* the task at the cap after a turn that issued tool calls; a task whose last
\* turn issued none, or whose model call failed, ends without it, on whatever
\* iteration.
C35_WarningOnlyWhenCapStops ==
  [][(pc = "finish" /\ pc' = "idle" /\ emitted'["warning"] > emitted["warning"]) =>
       /\ iteration = max_iterations
       /\ gw_error = "none"
       /\ assistant_tool_calls # <<>>]_vars


\* C36: when a call of _run_command has ended, by a result or by an
\* exception, the process it started is not running any more; in particular
\* the timeout's failure result is returned after the process was terminated.
C36_NoProcessOutlivesTheCall ==
  (invoked.fn = "_run_command" /\ invoked.pc = "returned") =>
    invoked.process # "running"

\* C37: when the task is cancelled while _run_command awaits the process, the
\* process is terminated and awaited before the cancellation leaves the call.
C37_CancelTerminatesProcess ==
  (invoked.fn = "_run_command" /\ invoked.raised = "CancelledError") =>
    invoked.process = "exited"


\* The catalog request of the call succeeded for the model: status 200, a
\* body that lists the model, with prices float() accepts.
LiveLookupSucceeds(c) ==
  /\ c.catalog.request = "ok" /\ c.catalog.status = 200 /\ c.catalog.body = "models"
  /\ Lookup(c.model_name, c.catalog.models).found = "listed"

\* C38: a call on a client with cached prices returns them without a request
\* to the catalog and leaves the cache as it is, so that the cache, once set,
\* never changes; a call on a client without cached prices asks the catalog,
\* and sets the cache, to the prices it returns, exactly when the live lookup
\* succeeded: a fallback leaves the cache empty.
C38_OnlyLiveLookupIsCached ==
  /\ []((invoked.fn = "get_model_pricing" /\ invoked.pc = "returned") =>
          IF invoked.cache_before.set
          THEN /\ ~invoked.queried
               /\ invoked.result = invoked.cache_before
               /\ client_cached_pricing = invoked.cache_before
          ELSE /\ invoked.queried
               /\ client_cached_pricing.set <=> LiveLookupSucceeds(invoked)
               /\ client_cached_pricing.set => client_cached_pricing = invoked.result)
  /\ [][client_cached_pricing.set => client_cached_pricing' = client_cached_pricing]_vars

\* A later call on a client that holds the live prices of the default model
\* meets a catalog endpoint that cannot be reached, and returns the cached
\* prices, not the static ones.
C38_Witness ==
  /\ invoked.fn = "get_model_pricing" /\ invoked.pc = "returned"
  /\ invoked.model_name = DEFAULT_MODEL
  /\ invoked.cache_before = Pricing(15, 75)
  /\ invoked.catalog.request = "ConnectError"
  /\ invoked.result = Pricing(15, 75) /\ ~invoked.queried

\* The prices some catalog of the runs lists for the model, and the static
\* entry of the model.
PricesOf(model_name) ==
  {Pricing(Float(e.prompt).v, Float(e.completion).v) :
     e \in {x \in CatalogEntries :
              x.id = model_name /\ Float(x.prompt).ok /\ Float(x.completion).ok}}
  \cup {StaticEntry(model_name)}

\* C39: whatever calls came before on the client, get_model_pricing(m) returns
\* prices of m: those of a catalog entry whose id is m, or the static entry of
\* m (zero prices for a model the table does not have).
C39_PricesOfTheModelAsked ==
  (invoked.fn = "get_model_pricing" /\ invoked.pc = "returned") =>
    invoked.result \in PricesOf(invoked.model_name)


\* C40: the execution of a call whose name is not an action name of the
\* catalog runs no command on the backend, and its tool-result is the failure
\* "Unknown tool".
C40_UnadvertisedNeverForwarded ==
  [][(pc = "tool" /\ pc' = "exec"
      /\ accumulated_tool_calls[exec_i].name \notin CatalogNames) =>
       /\ browser'.commands = browser.commands
       /\ api_messages'[Len(api_messages')].content.ok = FALSE
       /\ api_messages'[Len(api_messages')].content.output = "Unknown tool"]_vars

====
